---------------------------- MODULE Spec2Model ----------------------------
(***************************************************************************)
(* Distributed Jacobi solver (MPI/jacobi_mpi.c).                           *)
(*                                                                         *)
(* Every rank runs main(); the model keeps one program counter and one     *)
(* copy of main's locals per rank, and the data that the MPI collectives   *)
(* carry between ranks.  Arrays are functions on 0..n-1, as in C.          *)
(*                                                                         *)
(* A C double is modelled as an exact rational <<n, d>> in lowest terms    *)
(* with d > 0, extended with the IEEE special values that the code can     *)
(* produce by dividing by a zero diagonal entry: <<1, 0>> is +Inf,         *)
(* <<-1, 0>> is -Inf and <<0, 0>> is NaN.  Rounding is not modelled, the   *)
(* sign of zero is not modelled (the input holds no negative zero).        *)
(***************************************************************************)
EXTENDS Integers, Sequences, FiniteSets, TLC

\* ------------------------------------------------------------------------
\* Program constants
\* ------------------------------------------------------------------------
MAX_ITER == 1000

TolDen == 100000

TOLERANCE == <<1, TolDen>>

\* ------------------------------------------------------------------------
\* Bounds of the model
\* ------------------------------------------------------------------------
MaxP == 2

MaxPartN == 7

MaxPartP == 5

\* rounds in which an allocation of the gather tables may fail
MaxFaultRound == 2

\* ------------------------------------------------------------------------
\* double arithmetic
\* ------------------------------------------------------------------------
AbsInt(n) == IF n < 0 THEN -n ELSE n

SgnInt(n) == IF n < 0 THEN -1 ELSE IF n > 0 THEN 1 ELSE 0

RECURSIVE GCD(_, _)
GCD(a, b) == IF b = 0 THEN a ELSE GCD(b, a % b)

\* lowest terms; a zero denominator keeps only the sign of the numerator
Norm(n, d) ==
    IF d = 0 THEN <<SgnInt(n), 0>>
    ELSE LET s == IF d < 0 THEN -1 ELSE 1
             g == GCD(AbsInt(n), AbsInt(d))
         IN  <<(s * n) \div g, (s * d) \div g>>

Zero == <<0, 1>>

NaN == <<0, 0>>

FromInt(n) == <<n, 1>>

IsFinite(a) == a[2] # 0

IsNaN(a) == a = NaN

\* a + b
DAdd(a, b) ==
    IF IsNaN(a) \/ IsNaN(b) THEN NaN
    ELSE IF ~IsFinite(a) /\ ~IsFinite(b) THEN (IF a = b THEN a ELSE NaN)
    ELSE IF ~IsFinite(a) THEN a
    ELSE IF ~IsFinite(b) THEN b
    ELSE LET g == GCD(a[2], b[2])
             l == (a[2] \div g) * b[2]
         IN  Norm(a[1] * (l \div a[2]) + b[1] * (l \div b[2]), l)

DNeg(a) == <<-a[1], a[2]>>

\* a - b
DSub(a, b) == DAdd(a, DNeg(b))

\* a * b  (0 * Inf is NaN)
DMul(a, b) ==
    IF IsNaN(a) \/ IsNaN(b) THEN NaN
    ELSE LET g1 == GCD(AbsInt(a[1]), b[2])
             g2 == GCD(AbsInt(b[1]), a[2])
             h1 == IF g1 = 0 THEN 1 ELSE g1
             h2 == IF g2 = 0 THEN 1 ELSE g2
         IN  Norm((a[1] \div h1) * (b[1] \div h2), (a[2] \div h2) * (b[2] \div h1))

\* a / b  (x / 0 is +-Inf, 0 / 0 and Inf / Inf are NaN, x / Inf is 0)
DDiv(a, b) ==
    IF IsNaN(a) \/ IsNaN(b) THEN NaN
    ELSE IF ~IsFinite(a) /\ ~IsFinite(b) THEN NaN
    ELSE IF ~IsFinite(b) THEN Zero
    ELSE IF b[1] = 0 THEN <<SgnInt(a[1]), 0>>
    ELSE IF ~IsFinite(a) THEN <<a[1] * SgnInt(b[1]), 0>>
    ELSE DMul(a, <<SgnInt(b[1]) * b[2], AbsInt(b[1])>>)

\* fabs(a)
DAbs(a) == <<AbsInt(a[1]), a[2]>>

\* a > b for a finite b > 0; every comparison with NaN is false
DGt(a, b) ==
    IF IsNaN(a) \/ IsNaN(b) THEN FALSE
    ELSE IF ~IsFinite(a) THEN a[1] > 0
    ELSE a[1] > (b[1] * a[2]) \div b[2]

\* a <= b for a finite b > 0
DLe(a, b) ==
    IF IsNaN(a) \/ IsNaN(b) THEN FALSE
    ELSE IF ~IsFinite(a) THEN a[1] < 0
    ELSE a[1] <= (b[1] * a[2]) \div b[2]


\* ------------------------------------------------------------------------
\* Inputs: the content of matrix_data.txt and the number of ranks
\* ------------------------------------------------------------------------
DiagVals == {0, 1, 2}

OffVals == {0, 1}

BVals == {0, 1}

Idx(n) == 0 .. (n - 1)

\* the tokens of a file that holds n, then A row-major, then b; exists tells
\* whether fopen succeeds and len how many tokens fscanf can convert
FileOf(n, Aint, bint) ==
    [N |-> n,
     A |-> [k \in Idx(n * n) |-> FromInt(Aint[k])],
     b |-> [i \in Idx(n) |-> FromInt(bint[i])],
     exists |-> TRUE,
     len |-> 1 + n * n + n]

IsDiag(n, k) == (k \div n) = (k % n)

\* files whose N is not positive (nothing is read after N)
Files0 ==
    {[N |-> n, A |-> <<>>, b |-> <<>>, exists |-> TRUE, len |-> 1] : n \in {-1, 0}}

\* 1x1 systems, b also equal to the tolerance itself
Files1 ==
    {[N |-> 1, A |-> [k \in Idx(1) |-> FromInt(a)], b |-> [i \in Idx(1) |-> v],
      exists |-> TRUE, len |-> 3] :
        a \in DiagVals, v \in {Zero, FromInt(1), TOLERANCE}}

\* 2x2 systems with at most one non-zero off-diagonal entry
Files2 ==
    {FileOf(2, Aint, bint) :
        Aint \in {f \in [Idx(4) -> DiagVals \cup OffVals] :
                    /\ \A k \in Idx(4) :
                           f[k] \in (IF IsDiag(2, k) THEN DiagVals ELSE OffVals)
                    /\ f[1] = 0 \/ f[2] = 0},
        bint \in [Idx(2) -> BVals]}

\* 2x2 systems whose two rows depend on each other: with the diagonal 1, 1
\* the iteration never settles, with a larger diagonal it converges slowly
Files2Coupled ==
    {FileOf(2, Aint, bint) :
        Aint \in {f \in [Idx(4) -> {1, 2}] : f[1] = 1 /\ f[2] = 1},
        bint \in {[i \in Idx(2) |-> IF i = 0 THEN 1 ELSE 0]}}

\* 3x3 lower bidiagonal systems with a non-zero diagonal, A[0][0] = b[0] = 1
Files3 ==
    {FileOf(3, Aint, bint) :
        Aint \in {f \in [Idx(9) -> {0, 1, 2}] :
                    /\ f[0] = 1
                    /\ \A k \in Idx(9) :
                           IF IsDiag(3, k) THEN f[k] \in {1, 2}
                           ELSE IF (k \div 3) = (k % 3) + 1 THEN f[k] \in OffVals
                           ELSE f[k] = 0},
        bint \in {g \in [Idx(3) -> BVals] : g[0] = 1}}

\* the number of tokens a complete file holds
FullLen(f) == 1 + (IF f.N > 0 THEN f.N * f.N + f.N ELSE 0)

\* mutant: the results of fscanf are not looked at
Readable_Unchecked(f) == f.exists

\* fopen succeeds and every fscanf of lines 29-43 converts a token
Readable(f) == f.exists /\ f.len >= FullLen(f)

\* files that cannot be read: one that is missing, and files cut short
\* before N, inside A or inside b
FilesBad ==
    {[f EXCEPT !.exists = FALSE] : f \in Files2Coupled}
        \cup {[f EXCEPT !.len = l] : f \in Files2Coupled, l \in 0 .. 6}

\* the inputs that are also run on a system that can run out of memory
FilesScarce ==
    Files1 \cup {f \in Files2Coupled : f.A[0] = FromInt(2) /\ f.A[3] = FromInt(2)}

Files ==
    Files0 \cup Files1 \cup Files2 \cup Files2Coupled \cup Files3 \cup FilesBad

\* ------------------------------------------------------------------------
\* State
\* ------------------------------------------------------------------------
VARIABLES
    file,          \* content of matrix_data.txt
    heap,          \* "scarce" if the system can run out of memory during the run
    size,          \* number of ranks (MPI_Comm_size)
    pc,            \* pc[r]: where rank r is in main
    status,        \* status[r]: the exit status of rank r, Running before it exits
    N,             \* N[r]
    base,          \* base[r]
    rem,           \* rem[r]
    local_rows,    \* local_rows[r]
    start_row,     \* start_row[r]
    A_full,        \* rank 0: flattened NxN matrix
    b_full,        \* rank 0: full b
    sendcounts,    \* rank 0: scatter tables
    displsA,
    sendcounts_b,
    displsb,
    A_local,       \* A_local[r]: flattened local_rows x N block
    b_local,       \* b_local[r]
    x,             \* x[r]: rank r's copy of the solution vector
    x_old,         \* x_old[r]
    x_local,       \* x_local[r]: the segment computed by rank r
    iterations,    \* iterations[r]
    global_error,  \* global_error[r]
    local_error,   \* local_error[r]
    rcounts,       \* rank 0: gather tables of the current round
    rdispls,
    netN,          \* MPI_Bcast of N: what the root has sent
    netA,          \* MPI_Scatterv of A: netA[r] is the message for rank r
    netB,          \* MPI_Scatterv of b
    netX,          \* MPI_Gatherv: netX[r] is the segment sent by rank r
    netBc,         \* MPI_Bcast of x: what the root has sent
    netErr,        \* MPI_Allreduce: netErr[r] is the contribution of rank r
    abort,         \* the message of the die() that called MPI_Abort, and its cause
    out,           \* what rank 0 has printed on stdout
    gen_pc,        \* generate_data_file: where it is
    gen_n,         \* its argument n
    gen_i,         \* its loop counters i and j
    gen_j,
    gen_row_sum,   \* its row_sum
    gen_file,      \* the tokens it has written to the file
    gen_A,         \* the values it has passed to fprintf as entry (i, j) of A
    gen_b,         \* the values it has passed to fprintf as entry i of b
    prog,          \* the single-process solver that runs, "none" if none does
    threads,       \* the number of threads of its parallel regions
    sys,           \* N, A and b as its main has loaded them
    mem,           \* its vectors: "x" is main's x, "m0" and "m1" are the blocks
                   \* the routine allocates, in the order of their allocation
    p_old,         \* the block x_old points to
    p_new,         \* the block the update writes (x_new, or x in jacobi)
    diag,          \* the cached diagonal
    iter,          \* iter
    error,         \* error
    mpc,           \* where the routine is
    owner,         \* owner[i]: the thread that runs iteration i of the region
    th,            \* th[t]: the private i, j, sum of thread t and where it is
    accesses,      \* the reads and writes of the vectors in the current region
    ret,           \* what the routine has stored into *iterations
    ex_sys,        \* exact rounds of the MPI loop: the integer system
    ex_size,       \* the number of ranks
    ex_pc,         \* ex_pc[r]: where rank r is in the round
    ex_x,          \* x, the same on every rank after the broadcast
    ex_x_old,      \* x_old
    ex_x_local,    \* ex_x_local[r]
    ex_local_error,  \* ex_local_error[r]
    ex_global_error, \* global_error
    ex_iterations    \* iterations

vars == <<file, size, heap, pc, status, N, base, rem, local_rows, start_row,
          A_full, b_full, sendcounts, displsA, sendcounts_b, displsb,
          A_local, b_local, x, x_old, x_local, iterations, global_error,
          local_error, rcounts, rdispls, netN, netA, netB, netX, netBc, netErr,
          abort, out,
          gen_pc, gen_n, gen_i, gen_j, gen_row_sum, gen_file, gen_A, gen_b,
          prog, threads, sys, mem, p_old, p_new, diag, iter, error, mpc, owner, th,
          accesses, ret,
          ex_sys, ex_size, ex_pc, ex_x, ex_x_old, ex_x_local, ex_local_error,
          ex_global_error, ex_iterations>>

genVars == <<gen_pc, gen_n, gen_i, gen_j, gen_row_sum, gen_file, gen_A, gen_b>>

ompVars == <<prog, threads, sys, mem, p_old, p_new, diag, iter, error, mpc, owner, th,
            accesses, ret>>

exactVars == <<ex_sys, ex_size, ex_pc, ex_x, ex_x_old, ex_x_local, ex_local_error,
              ex_global_error, ex_iterations>>

Ranks == Idx(size)

\* the status of a rank that has not returned from main
Running == -1

\* nobody has called die()
NoAbort == [msg |-> "", cause |-> "none"]

\* nothing has been printed
NoOutput == [printed |-> FALSE]

\* locals of main before any statement has run (line 21: N = 0)
InitLocals ==
    /\ status = [r \in Ranks |-> Running]
    /\ base = [r \in Ranks |-> 0]
    /\ rem = [r \in Ranks |-> 0]
    /\ local_rows = [r \in Ranks |-> 0]
    /\ start_row = [r \in Ranks |-> 0]
    /\ A_full = <<>>
    /\ b_full = <<>>
    /\ sendcounts = <<>>
    /\ displsA = <<>>
    /\ sendcounts_b = <<>>
    /\ displsb = <<>>
    /\ A_local = [r \in Ranks |-> <<>>]
    /\ b_local = [r \in Ranks |-> <<>>]
    /\ x = [r \in Ranks |-> <<>>]
    /\ x_old = [r \in Ranks |-> <<>>]
    /\ x_local = [r \in Ranks |-> <<>>]
    /\ iterations = [r \in Ranks |-> 0]
    /\ global_error = [r \in Ranks |-> Zero]
    /\ local_error = [r \in Ranks |-> Zero]
    /\ rcounts = <<>>
    /\ rdispls = <<>>
    /\ netN = [sent |-> FALSE, val |-> 0]
    /\ netA = [r \in Ranks |-> [sent |-> FALSE, data |-> <<>>]]
    /\ netB = [r \in Ranks |-> [sent |-> FALSE, data |-> <<>>]]
    /\ netX = [r \in Ranks |-> [round |-> 0, data |-> <<>>]]
    /\ netBc = [round |-> 0, data |-> <<>>]
    /\ netErr = [r \in Ranks |-> [round |-> 0, val |-> Zero]]
    /\ abort = NoAbort
    /\ out = NoOutput

\* the generator is not run
GenIdle ==
    /\ gen_pc = "idle"
    /\ gen_n = 0
    /\ gen_i = 0
    /\ gen_j = 0
    /\ gen_row_sum = Zero
    /\ gen_file = <<>>
    /\ gen_A = <<>>
    /\ gen_b = <<>>

\* no exact rounds are run
ExactIdle ==
    /\ ex_sys = [N |-> 0, A |-> <<>>, b |-> <<>>]
    /\ ex_size = 1
    /\ ex_pc = <<>>
    /\ ex_x = <<>>
    /\ ex_x_old = <<>>
    /\ ex_x_local = <<>>
    /\ ex_local_error = <<>>
    /\ ex_global_error = <<>>
    /\ ex_iterations = 0

\* no single-process solver is run
OmpIdle ==
    /\ prog = "none"
    /\ threads = 1
    /\ sys = [N |-> 0, A |-> <<>>, b |-> <<>>]
    /\ mem = <<>>
    /\ p_old = "m0"
    /\ p_new = "m1"
    /\ diag = <<>>
    /\ iter = 0
    /\ error = Zero
    /\ mpc = "idle"
    /\ owner = <<>>
    /\ th = <<>>
    /\ accesses = {}
    /\ ret = [stored |-> FALSE]

Init ==
    /\ GenIdle
    /\ OmpIdle
    /\ ExactIdle
    /\ \/ file \in Files /\ heap = "ample"
       \/ file \in FilesScarce /\ heap = "scarce"
    /\ size \in 1 .. MaxP
    /\ pc = [r \in Ranks |-> IF r = 0 THEN "load" ELSE "bcastN"]
    /\ N = [r \in Ranks |-> 0]
    /\ InitLocals

\* ------------------------------------------------------------------------
\* main, lines 25-52: rank 0 reads the file, N is broadcast and checked
\* ------------------------------------------------------------------------
\* die(), lines 9-12: rank r prints msg and calls MPI_Abort, which ends it
\* with the error code 1
Die(r, msg, cause) ==
    /\ abort.cause = "none"
    /\ abort' = [msg |-> msg, cause |-> cause]
    /\ pc' = [pc EXCEPT ![r] = "exited"]
    /\ status' = [status EXCEPT ![r] = 1]

\* MPI_Abort(MPI_COMM_WORLD, 1): every other rank of the communicator is
\* ended by the runtime, at whatever statement it has reached
Killed(r) ==
    /\ abort.cause # "none"
    /\ pc[r] # "exited"
    /\ pc' = [pc EXCEPT ![r] = "exited"]
    /\ status' = [status EXCEPT ![r] = 1]
    /\ UNCHANGED <<abort, out, genVars, ompVars, exactVars, file, size, heap, N, base, rem, local_rows, start_row,
                   A_full, b_full, sendcounts, displsA, sendcounts_b, displsb,
                   A_local, b_local, x, x_old, x_local, iterations, global_error,
                   local_error, rcounts, rdispls, netN, netA, netB, netX, netBc,
                   netErr>>

\* lines 27-29, 35-42: fopen fails or an fscanf converts nothing
LoadFail ==
    /\ pc[0] = "load"
    /\ ~Readable(file)
    /\ Die(0, IF ~file.exists THEN "Error opening file 'matrix_data.txt'"
              ELSE IF file.len < 1 THEN "Failed to read N"
              ELSE IF file.len < 1 + file.N * file.N THEN "Failed to read A"
              ELSE "Failed to read b", "io")
    /\ N' = [N EXCEPT ![0] = IF file.exists /\ file.len >= 1 THEN file.N ELSE 0]
    /\ UNCHANGED <<out, genVars, ompVars, exactVars, file, size, heap, base, rem, local_rows, start_row,
                   A_full, b_full, sendcounts, displsA, sendcounts_b, displsb,
                   A_local, b_local, x, x_old, x_local, iterations, global_error,
                   local_error, rcounts, rdispls, netN, netA, netB, netX, netBc,
                   netErr>>

\* lines 31-33: a malloc of rank 0 returns NULL. For N < 0 the request for
\* b_full is (size_t)N * 8 bytes, close to 2^64, and is always refused; for
\* N > 0 the system may be out of memory; for N = 0 both requests are for 0
\* bytes, for which malloc returns NULL or a pointer (implementation-defined)
LoadAllocFail ==
    /\ pc[0] = "load"
    /\ file.exists /\ file.len >= 1
    /\ file.N < 0 \/ file.N = 0 \/ heap = "scarce"
    /\ Die(0, "Allocation failed on rank 0", IF file.N = 0 THEN "malloc0" ELSE "alloc")
    /\ N' = [N EXCEPT ![0] = file.N]
    /\ UNCHANGED <<out, genVars, ompVars, exactVars, file, size, heap, base, rem, local_rows, start_row,
                   A_full, b_full, sendcounts, displsA, sendcounts_b, displsb,
                   A_local, b_local, x, x_old, x_local, iterations, global_error,
                   local_error, rcounts, rdispls, netN, netA, netB, netX, netBc,
                   netErr>>

Load ==
    /\ pc[0] = "load"
    /\ Readable(file)
    /\ file.N >= 0
    /\ N' = [N EXCEPT ![0] = file.N]
    /\ A_full' = [k \in Idx(IF file.N > 0 THEN file.N * file.N ELSE 0) |-> file.A[k]]
    /\ b_full' = [i \in Idx(file.N) |-> file.b[i]]
    /\ pc' = [pc EXCEPT ![0] = "bcastN"]
    /\ UNCHANGED <<abort, out, genVars, ompVars, exactVars, file, size, heap, status, base, rem, local_rows, start_row,
                   sendcounts, displsA, sendcounts_b, displsb, A_local, b_local,
                   x, x_old, x_local, iterations, global_error, local_error,
                   rcounts, rdispls, netN, netA, netB, netX, netBc, netErr>>

\* mutant: only a negative N is rejected
InvalidN_Negative(n) == n < 0

\* line 48: the N that is rejected
InvalidN(n) == n <= 0

BcastN(r) ==
    /\ pc[r] = "bcastN"
    /\ r # 0 => netN.sent
    /\ LET n == IF r = 0 THEN N[0] ELSE netN.val
       IN  /\ N' = [N EXCEPT ![r] = n]
           /\ netN' = IF r = 0 THEN [sent |-> TRUE, val |-> n] ELSE netN
           /\ IF InvalidN(n)
              THEN /\ pc' = [pc EXCEPT ![r] = "exited"]
                   /\ status' = [status EXCEPT ![r] = 1]
              ELSE /\ pc' = [pc EXCEPT ![r] = "partition"]
                   /\ UNCHANGED status
    /\ UNCHANGED <<abort, out, genVars, ompVars, exactVars, file, size, heap, base, rem, local_rows, start_row,
                   A_full, b_full, sendcounts, displsA, sendcounts_b, displsb,
                   A_local, b_local, x, x_old, x_local, iterations, global_error,
                   local_error, rcounts, rdispls, netA, netB, netX, netBc, netErr>>

\* ------------------------------------------------------------------------
\* main, lines 54-64: the row range of a rank, computed by the rank itself
\* ------------------------------------------------------------------------
Base(n, p) == n \div p

Rem(n, p) == n % p

LocalRows(n, p, r) == Base(n, p) + (IF r < Rem(n, p) THEN 1 ELSE 0)

\* mutant: the remainder rows of the lower ranks are not skipped
StartRow_NoRem(n, p, r) == r * Base(n, p) + (IF r < Rem(n, p) THEN r ELSE 0)

StartRow(n, p, r) == r * Base(n, p) + (IF r < Rem(n, p) THEN r ELSE Rem(n, p))

\* lines 62-64: a malloc of the local slices returns NULL: the system is out
\* of memory, or the rank owns no row, the requests are for 0 bytes and this
\* malloc returns NULL for them
PartitionAllocFail(r) ==
    /\ pc[r] = "partition"
    /\ LocalRows(N[r], size, r) = 0 \/ heap = "scarce"
    /\ Die(r, "Local allocation failed",
           IF LocalRows(N[r], size, r) = 0 THEN "malloc0" ELSE "alloc")
    /\ base' = [base EXCEPT ![r] = Base(N[r], size)]
    /\ rem' = [rem EXCEPT ![r] = Rem(N[r], size)]
    /\ local_rows' = [local_rows EXCEPT ![r] = LocalRows(N[r], size, r)]
    /\ start_row' = [start_row EXCEPT ![r] = StartRow(N[r], size, r)]
    /\ UNCHANGED <<out, genVars, ompVars, exactVars, file, size, heap, N, A_full, b_full,
                   sendcounts, displsA, sendcounts_b, displsb,
                   A_local, b_local, x, x_old, x_local, iterations, global_error,
                   local_error, rcounts, rdispls, netN, netA, netB, netX, netBc,
                   netErr>>

Partition(r) ==
    /\ pc[r] = "partition"
    /\ base' = [base EXCEPT ![r] = Base(N[r], size)]
    /\ rem' = [rem EXCEPT ![r] = Rem(N[r], size)]
    /\ local_rows' = [local_rows EXCEPT ![r] = LocalRows(N[r], size, r)]
    /\ start_row' = [start_row EXCEPT ![r] = StartRow(N[r], size, r)]
    /\ pc' = [pc EXCEPT ![r] = IF r = 0 THEN "counts" ELSE "scatter"]
    /\ UNCHANGED <<abort, out, genVars, ompVars, exactVars, file, size, heap, status, N, A_full, b_full,
                   sendcounts, displsA, sendcounts_b, displsb, A_local, b_local,
                   x, x_old, x_local, iterations, global_error, local_error,
                   rcounts, rdispls, netN, netA, netB, netX, netBc, netErr>>

\* ------------------------------------------------------------------------
\* main, lines 66-86: rank 0 builds the counts and displacements
\* ------------------------------------------------------------------------
Extend(arr, r, v) == [k \in Idx(r + 1) |-> IF k < r THEN arr[k] ELSE v]

\* mutant: the displacement into A counts rows, not elements
RECURSIVE ScatterLoop_RowDispl(_, _, _, _, _, _, _)
ScatterLoop_RowDispl(r, p, n, bs, rm, off, t) ==
    IF r >= p THEN t
    ELSE LET rows_r == bs + (IF r < rm THEN 1 ELSE 0)
         IN  ScatterLoop_RowDispl(r + 1, p, n, bs, rm,
                 [rows |-> off.rows + rows_r, elemsA |-> off.elemsA + rows_r * n],
                 [sendcounts   |-> Extend(t.sendcounts, r, rows_r * n),
                  displsA      |-> Extend(t.displsA, r, off.rows),
                  sendcounts_b |-> Extend(t.sendcounts_b, r, rows_r),
                  displsb      |-> Extend(t.displsb, r, off.rows)])

\* the body of the loop at lines 77-85, for r, r+1, ..., p-1
RECURSIVE ScatterLoop(_, _, _, _, _, _, _)
ScatterLoop(r, p, n, bs, rm, off, t) ==
    IF r >= p THEN t
    ELSE LET rows_r == bs + (IF r < rm THEN 1 ELSE 0)
         IN  ScatterLoop(r + 1, p, n, bs, rm,
                 [rows |-> off.rows + rows_r, elemsA |-> off.elemsA + rows_r * n],
                 [sendcounts   |-> Extend(t.sendcounts, r, rows_r * n),
                  displsA      |-> Extend(t.displsA, r, off.elemsA),
                  sendcounts_b |-> Extend(t.sendcounts_b, r, rows_r),
                  displsb      |-> Extend(t.displsb, r, off.rows)])

ScatterTables(p, n, bs, rm) ==
    ScatterLoop(0, p, n, bs, rm, [rows |-> 0, elemsA |-> 0],
                [sendcounts |-> <<>>, displsA |-> <<>>,
                 sendcounts_b |-> <<>>, displsb |-> <<>>])

\* lines 69-73: a malloc of the four scatter tables returns NULL
CountsAllocFail ==
    /\ pc[0] = "counts"
    /\ heap = "scarce"
    /\ Die(0, "Scatter arrays alloc failed", "alloc")
    /\ UNCHANGED <<out, genVars, ompVars, exactVars, file, size, heap, N, base, rem, local_rows, start_row,
                   A_full, b_full, sendcounts, displsA, sendcounts_b, displsb,
                   A_local, b_local, x, x_old, x_local, iterations, global_error,
                   local_error, rcounts, rdispls, netN, netA, netB, netX, netBc,
                   netErr>>

Counts ==
    /\ pc[0] = "counts"
    /\ LET t == ScatterTables(size, N[0], base[0], rem[0])
       IN  /\ sendcounts' = t.sendcounts
           /\ displsA' = t.displsA
           /\ sendcounts_b' = t.sendcounts_b
           /\ displsb' = t.displsb
    /\ pc' = [pc EXCEPT ![0] = "scatter"]
    /\ UNCHANGED <<abort, out, genVars, ompVars, exactVars, file, size, heap, status, N, base, rem, local_rows, start_row,
                   A_full, b_full, A_local, b_local,
                   x, x_old, x_local, iterations, global_error, local_error,
                   rcounts, rdispls, netN, netA, netB, netX, netBc, netErr>>

\* ------------------------------------------------------------------------
\* main, lines 88-92: MPI_Scatterv of A and of b
\* ------------------------------------------------------------------------
Size(arr) == Cardinality(DOMAIN arr)

Slice(arr, off, cnt) == [k \in Idx(cnt) |-> arr[off + k]]

\* what a rank keeps of a message: at most recvcount elements
Recv(data, recvcount) ==
    [k \in Idx(IF Size(data) < recvcount THEN Size(data) ELSE recvcount) |-> data[k]]

Scatter(r) ==
    /\ pc[r] = "scatter"
    /\ r # 0 => netA[r].sent /\ netB[r].sent
    /\ LET msgA == [s \in Ranks |-> Slice(A_full, displsA[s], sendcounts[s])]
           msgB == [s \in Ranks |-> Slice(b_full, displsb[s], sendcounts_b[s])]
       IN  IF r = 0
           THEN /\ netA' = [s \in Ranks |-> [sent |-> TRUE, data |-> msgA[s]]]
                /\ netB' = [s \in Ranks |-> [sent |-> TRUE, data |-> msgB[s]]]
                /\ A_local' = [A_local EXCEPT ![0] = Recv(msgA[0], local_rows[0] * N[0])]
                /\ b_local' = [b_local EXCEPT ![0] = Recv(msgB[0], local_rows[0])]
           ELSE /\ UNCHANGED <<netA, netB>>
                /\ A_local' = [A_local EXCEPT ![r] = Recv(netA[r].data, local_rows[r] * N[r])]
                /\ b_local' = [b_local EXCEPT ![r] = Recv(netB[r].data, local_rows[r])]
    /\ pc' = [pc EXCEPT ![r] = "initx"]
    /\ UNCHANGED <<abort, out, genVars, ompVars, exactVars, file, size, heap, status, N, base, rem, local_rows, start_row,
                   A_full, b_full, sendcounts, displsA, sendcounts_b, displsb,
                   x, x_old, x_local, iterations, global_error, local_error,
                   rcounts, rdispls, netN, netX, netBc, netErr>>

\* ------------------------------------------------------------------------
\* main, lines 94-105: x and x_old are allocated and set to zero
\* ------------------------------------------------------------------------
\* mutant: the iteration starts from the vector of ones
Zeros_Ones(n) == [i \in Idx(n) |-> FromInt(1)]

Zeros(n) == [i \in Idx(n) |-> Zero]

\* lines 95-98: a malloc of x or x_old (N > 0 doubles each) returns NULL; a
\* malloc that returns NULL for 0 bytes has already ended a rank without rows
\* at line 64
InitXAllocFail(r) ==
    /\ pc[r] = "initx"
    /\ heap = "scarce"
    /\ Die(r, "x allocation failed", "alloc")
    /\ UNCHANGED <<out, genVars, ompVars, exactVars, file, size, heap, N, base, rem, local_rows, start_row,
                   A_full, b_full, sendcounts, displsA, sendcounts_b, displsb,
                   A_local, b_local, x, x_old, x_local, iterations, global_error,
                   local_error, rcounts, rdispls, netN, netA, netB, netX, netBc,
                   netErr>>

InitX(r) ==
    /\ pc[r] = "initx"
    /\ x' = [x EXCEPT ![r] = Zeros(N[r])]
    /\ x_old' = [x_old EXCEPT ![r] = Zeros(N[r])]
    /\ iterations' = [iterations EXCEPT ![r] = 0]
    /\ global_error' = [global_error EXCEPT ![r] = Zero]
    /\ pc' = [pc EXCEPT ![r] = "copy"]
    /\ UNCHANGED <<abort, out, genVars, ompVars, exactVars, file, size, heap, status, N, base, rem, local_rows, start_row,
                   A_full, b_full, sendcounts, displsA, sendcounts_b, displsb,
                   A_local, b_local, x_local, local_error,
                   rcounts, rdispls, netN, netA, netB, netX, netBc, netErr>>

\* ------------------------------------------------------------------------
\* main, lines 108-159: one round of the do-while loop
\* ------------------------------------------------------------------------
\* the round a rank is in while it is inside the loop body
Round(r) == iterations[r] + 1

\* mutant: x_old is not refreshed at the start of the round
CopyXOld_NoCopy(r) ==
    /\ pc[r] = "copy"
    /\ pc' = [pc EXCEPT ![r] = "update"]
    /\ UNCHANGED <<abort, out, genVars, ompVars, exactVars, file, size, heap, status, N, base, rem, local_rows, start_row,
                   A_full, b_full, sendcounts, displsA, sendcounts_b, displsb,
                   A_local, b_local, x, x_old, x_local, iterations, global_error,
                   local_error, rcounts, rdispls, netN, netA, netB, netX, netBc, netErr>>

\* line 110
CopyXOld(r) ==
    /\ pc[r] = "copy"
    /\ x_old' = [x_old EXCEPT ![r] = [i \in Idx(N[r]) |-> x[r][i]]]
    /\ pc' = [pc EXCEPT ![r] = "update"]
    /\ UNCHANGED <<abort, out, genVars, ompVars, exactVars, file, size, heap, status, N, base, rem, local_rows, start_row,
                   A_full, b_full, sendcounts, displsA, sendcounts_b, displsb,
                   A_local, b_local, x, x_local, iterations, global_error,
                   local_error, rcounts, rdispls, netN, netA, netB, netX, netBc, netErr>>

\* lines 115-118: sum over j = from .. n-1 of Al[li*n + j] * xo[j], j # i
RECURSIVE RowSum(_, _, _, _, _, _, _)
RowSum(Al, xo, n, li, i, j, sum) ==
    IF j >= n THEN sum
    ELSE RowSum(Al, xo, n, li, i, j + 1,
                IF j # i THEN DAdd(sum, DMul(Al[li * n + j], xo[j])) ELSE sum)

\* mutant: the diagonal is taken at the local row index
JacobiRow_LocalDiag(Al, bl, xo, n, sr, li) ==
    LET i == sr + li
    IN  DDiv(DSub(bl[li], RowSum(Al, xo, n, li, i, 0, Zero)), Al[li * n + li])

\* lines 114-119 for one local row li
JacobiRow(Al, bl, xo, n, sr, li) ==
    LET i == sr + li
    IN  DDiv(DSub(bl[li], RowSum(Al, xo, n, li, i, 0, Zero)), Al[li * n + i])

\* mutant: the new values of the owned rows are also stored into x_old
LocalUpdate_InPlace(r) ==
    /\ pc[r] = "update"
    /\ x_local' = [x_local EXCEPT ![r] =
            [li \in Idx(local_rows[r]) |->
                JacobiRow(A_local[r], b_local[r], x_old[r], N[r], start_row[r], li)]]
    /\ x_old' = [x_old EXCEPT ![r] =
            [i \in Idx(N[r]) |->
                IF start_row[r] <= i /\ i < start_row[r] + local_rows[r]
                THEN x_local'[r][i - start_row[r]] ELSE x_old[r][i]]]
    /\ pc' = [pc EXCEPT ![r] = "gather"]
    /\ UNCHANGED <<abort, out, genVars, ompVars, exactVars, file, size, heap, status, N, base, rem, local_rows, start_row,
                   A_full, b_full, sendcounts, displsA, sendcounts_b, displsb,
                   A_local, b_local, x, iterations, global_error,
                   local_error, rcounts, rdispls, netN, netA, netB, netX, netBc, netErr>>

\* lines 112-120
LocalUpdate(r) ==
    /\ pc[r] = "update"
    /\ x_local' = [x_local EXCEPT ![r] =
            [li \in Idx(local_rows[r]) |->
                JacobiRow(A_local[r], b_local[r], x_old[r], N[r], start_row[r], li)]]
    /\ pc' = [pc EXCEPT ![r] = "gather"]
    /\ UNCHANGED <<abort, out, genVars, ompVars, exactVars, file, size, heap, status, N, base, rem, local_rows, start_row,
                   A_full, b_full, sendcounts, displsA, sendcounts_b, displsb,
                   A_local, b_local, x, x_old, iterations, global_error,
                   local_error, rcounts, rdispls, netN, netA, netB, netX, netBc, netErr>>

\* mutant: the displacement of rank r is r * base, the remainder is ignored
RECURSIVE GatherLoop_BaseDispl(_, _, _, _, _, _)
GatherLoop_BaseDispl(r, p, bs, rm, offset, t) ==
    IF r >= p THEN t
    ELSE LET rows_r == bs + (IF r < rm THEN 1 ELSE 0)
         IN  GatherLoop_BaseDispl(r + 1, p, bs, rm, offset + rows_r,
                 [rcounts |-> Extend(t.rcounts, r, rows_r),
                  rdispls |-> Extend(t.rdispls, r, r * bs)])

\* the body of the loop at lines 131-136, for r, r+1, ..., p-1
RECURSIVE GatherLoop(_, _, _, _, _, _)
GatherLoop(r, p, bs, rm, offset, t) ==
    IF r >= p THEN t
    ELSE LET rows_r == bs + (IF r < rm THEN 1 ELSE 0)
         IN  GatherLoop(r + 1, p, bs, rm, offset + rows_r,
                 [rcounts |-> Extend(t.rcounts, r, rows_r),
                  rdispls |-> Extend(t.rdispls, r, offset)])

GatherTables(p, bs, rm) ==
    GatherLoop(0, p, bs, rm, 0, [rcounts |-> <<>>, rdispls |-> <<>>])

\* the root stores the segment of rank s at displacement dsp[s], s = r .. p-1
RECURSIVE Assemble(_, _, _, _, _)
Assemble(r, p, segs, t, xr) ==
    IF r >= p THEN xr
    ELSE LET seg == Recv(segs[r], t.rcounts[r])
         IN  Assemble(r + 1, p, segs, t,
                 [i \in DOMAIN xr |->
                     IF t.rdispls[r] <= i /\ i < t.rdispls[r] + Size(seg)
                     THEN seg[i - t.rdispls[r]] ELSE xr[i]])

\* lines 126-128: a malloc of the gather tables returns NULL (such a failure
\* is injected in the first MaxFaultRound rounds)
GatherAllocFail ==
    /\ pc[0] = "gather"
    /\ heap = "scarce"
    /\ iterations[0] < MaxFaultRound
    /\ Die(0, "Gather arrays alloc failed", "alloc")
    /\ UNCHANGED <<out, genVars, ompVars, exactVars, file, size, heap, N, base, rem, local_rows, start_row,
                   A_full, b_full, sendcounts, displsA, sendcounts_b, displsb,
                   A_local, b_local, x, x_old, x_local, iterations, global_error,
                   local_error, rcounts, rdispls, netN, netA, netB, netX, netBc,
                   netErr>>

\* mutant: the root does not wait for the segments of the round, it takes
\* whatever the other ranks have sent last
Gather_NoWait(r) ==
    /\ pc[r] = "gather"
    /\ IF r = 0
       THEN /\ LET t == GatherTables(size, base[0], rem[0])
                   segs == [s \in Ranks |-> IF s = 0 THEN x_local[0] ELSE netX[s].data]
               IN  /\ rcounts' = t.rcounts
                   /\ rdispls' = t.rdispls
                   /\ x' = [x EXCEPT ![0] = Assemble(0, size, segs, t, x[0])]
            /\ UNCHANGED netX
       ELSE /\ netX' = [netX EXCEPT ![r] = [round |-> Round(r), data |-> x_local[r]]]
            /\ UNCHANGED <<rcounts, rdispls, x>>
    /\ pc' = [pc EXCEPT ![r] = "bcast"]
    /\ UNCHANGED <<abort, out, genVars, ompVars, exactVars, file, size, heap, status, N, base, rem, local_rows, start_row,
                   A_full, b_full, sendcounts, displsA, sendcounts_b, displsb,
                   A_local, b_local, x_old, x_local, iterations, global_error,
                   local_error, netN, netA, netB, netBc, netErr>>

\* lines 122-140: MPI_Gatherv; the root returns once every segment is there
Gather(r) ==
    /\ pc[r] = "gather"
    /\ IF r = 0
       THEN /\ \A s \in Ranks \ {0} : netX[s].round = Round(0)
            /\ LET t == GatherTables(size, base[0], rem[0])
                   segs == [s \in Ranks |-> IF s = 0 THEN x_local[0] ELSE netX[s].data]
               IN  /\ rcounts' = t.rcounts
                   /\ rdispls' = t.rdispls
                   /\ x' = [x EXCEPT ![0] = Assemble(0, size, segs, t, x[0])]
            /\ UNCHANGED netX
       ELSE /\ netX' = [netX EXCEPT ![r] = [round |-> Round(r), data |-> x_local[r]]]
            /\ UNCHANGED <<rcounts, rdispls, x>>
    /\ pc' = [pc EXCEPT ![r] = "bcast"]
    /\ UNCHANGED <<abort, out, genVars, ompVars, exactVars, file, size, heap, status, N, base, rem, local_rows, start_row,
                   A_full, b_full, sendcounts, displsA, sendcounts_b, displsb,
                   A_local, b_local, x_old, x_local, iterations, global_error,
                   local_error, netN, netA, netB, netBc, netErr>>

\* line 143: MPI_Bcast of x from rank 0
Bcast(r) ==
    /\ pc[r] = "bcast"
    /\ IF r = 0
       THEN /\ netBc' = [round |-> Round(0), data |-> [i \in Idx(N[0]) |-> x[0][i]]]
            /\ UNCHANGED x
       ELSE /\ netBc.round = Round(r)
            /\ x' = [x EXCEPT ![r] = Recv(netBc.data, N[r])]
            /\ UNCHANGED netBc
    /\ pc' = [pc EXCEPT ![r] = "error"]
    /\ UNCHANGED <<abort, out, genVars, ompVars, exactVars, file, size, heap, status, N, base, rem, local_rows, start_row,
                   A_full, b_full, sendcounts, displsA, sendcounts_b, displsb,
                   A_local, b_local, x_old, x_local, iterations, global_error,
                   local_error, rcounts, rdispls, netN, netA, netB, netX, netErr>>

\* mutant: the rows are indexed without the offset start_row
RECURSIVE ErrorLoop_NoOffset(_, _, _, _, _, _)
ErrorLoop_NoOffset(xr, xo, sr, rows, li, err) ==
    IF li >= rows THEN err
    ELSE ErrorLoop_NoOffset(xr, xo, sr, rows, li + 1,
                            DAdd(err, DAbs(DSub(xr[li], xo[li]))))

\* lines 147-150: sum over li = from .. rows-1 of fabs(x[i] - x_old[i])
RECURSIVE ErrorLoop(_, _, _, _, _, _)
ErrorLoop(xr, xo, sr, rows, li, err) ==
    IF li >= rows THEN err
    ELSE ErrorLoop(xr, xo, sr, rows, li + 1,
                   DAdd(err, DAbs(DSub(xr[sr + li], xo[sr + li]))))

\* lines 145-150
LocalError(r) ==
    /\ pc[r] = "error"
    /\ local_error' = [local_error EXCEPT ![r] =
            ErrorLoop(x[r], x_old[r], start_row[r], local_rows[r], 0, Zero)]
    /\ pc' = [pc EXCEPT ![r] = "allreduce"]
    /\ UNCHANGED <<abort, out, genVars, ompVars, exactVars, file, size, heap, status, N, base, rem, local_rows, start_row,
                   A_full, b_full, sendcounts, displsA, sendcounts_b, displsb,
                   A_local, b_local, x, x_old, x_local, iterations, global_error,
                   rcounts, rdispls, netN, netA, netB, netX, netBc, netErr>>

\* mutant: the contributions are combined with MPI_MAX
RECURSIVE ReduceSum_Max(_, _, _, _)
ReduceSum_Max(r, p, contrib, acc) ==
    IF r >= p THEN acc
    ELSE ReduceSum_Max(r + 1, p, contrib,
                       IF DGt(contrib[r].val, acc) THEN contrib[r].val ELSE acc)

\* MPI_SUM over the contributions of ranks r .. p-1
RECURSIVE ReduceSum(_, _, _, _)
ReduceSum(r, p, contrib, acc) ==
    IF r >= p THEN acc
    ELSE ReduceSum(r + 1, p, contrib, DAdd(acc, contrib[r].val))

\* line 151, entry: the rank hands in its local_error
AllreduceEnter(r) ==
    /\ pc[r] = "allreduce"
    /\ netErr' = [netErr EXCEPT ![r] = [round |-> Round(r), val |-> local_error[r]]]
    /\ pc' = [pc EXCEPT ![r] = "allreduce_wait"]
    /\ UNCHANGED <<abort, out, genVars, ompVars, exactVars, file, size, heap, status, N, base, rem, local_rows, start_row,
                   A_full, b_full, sendcounts, displsA, sendcounts_b, displsb,
                   A_local, b_local, x, x_old, x_local, iterations, global_error,
                   local_error, rcounts, rdispls, netN, netA, netB, netX, netBc>>

\* mutant: a reduce to rank 0, the other ranks keep their global_error
AllreduceReturn_RootOnly(r) ==
    /\ pc[r] = "allreduce_wait"
    /\ \A s \in Ranks : netErr[s].round = Round(r)
    /\ global_error' = [global_error EXCEPT ![r] =
            IF r = 0 THEN ReduceSum(0, size, netErr, Zero) ELSE global_error[r]]
    /\ pc' = [pc EXCEPT ![r] = "check"]
    /\ UNCHANGED <<abort, out, genVars, ompVars, exactVars, file, size, heap, status, N, base, rem, local_rows, start_row,
                   A_full, b_full, sendcounts, displsA, sendcounts_b, displsb,
                   A_local, b_local, x, x_old, x_local, iterations,
                   local_error, rcounts, rdispls, netN, netA, netB, netX, netBc, netErr>>

\* line 151, return: every rank has handed in its contribution
AllreduceReturn(r) ==
    /\ pc[r] = "allreduce_wait"
    /\ \A s \in Ranks : netErr[s].round = Round(r)
    /\ global_error' = [global_error EXCEPT ![r] = ReduceSum(0, size, netErr, Zero)]
    /\ pc' = [pc EXCEPT ![r] = "check"]
    /\ UNCHANGED <<abort, out, genVars, ompVars, exactVars, file, size, heap, status, N, base, rem, local_rows, start_row,
                   A_full, b_full, sendcounts, displsA, sendcounts_b, displsb,
                   A_local, b_local, x, x_old, x_local, iterations,
                   local_error, rcounts, rdispls, netN, netA, netB, netX, netBc, netErr>>

\* mutant: the loop goes on while the error is >= TOLERANCE
Continue_Ge(err, it) == (DGt(err, TOLERANCE) \/ err = TOLERANCE) /\ it < MAX_ITER

\* line 159: the condition of the do-while, on the incremented counter
Continue(err, it) == DGt(err, TOLERANCE) /\ it < MAX_ITER

\* mutant: the loop starts above the scatter
LoopCheck_Rescatter(r) ==
    /\ pc[r] = "check"
    /\ iterations' = [iterations EXCEPT ![r] = iterations[r] + 1]
    /\ rcounts' = IF r = 0 THEN <<>> ELSE rcounts
    /\ rdispls' = IF r = 0 THEN <<>> ELSE rdispls
    /\ pc' = [pc EXCEPT ![r] =
            IF Continue(global_error[r], iterations[r] + 1) THEN "scatter" ELSE "report"]
    /\ UNCHANGED <<abort, out, genVars, ompVars, exactVars, file, size, heap, status, N, base, rem, local_rows, start_row,
                   A_full, b_full, sendcounts, displsA, sendcounts_b, displsb,
                   A_local, b_local, x, x_old, x_local, global_error,
                   local_error, netN, netA, netB, netX, netBc, netErr>>

\* lines 153-159
LoopCheck(r) ==
    /\ pc[r] = "check"
    /\ iterations' = [iterations EXCEPT ![r] = iterations[r] + 1]
    /\ rcounts' = IF r = 0 THEN <<>> ELSE rcounts
    /\ rdispls' = IF r = 0 THEN <<>> ELSE rdispls
    /\ pc' = [pc EXCEPT ![r] =
            IF Continue(global_error[r], iterations[r] + 1) THEN "copy" ELSE "report"]
    /\ UNCHANGED <<abort, out, genVars, ompVars, exactVars, file, size, heap, status, N, base, rem, local_rows, start_row,
                   A_full, b_full, sendcounts, displsA, sendcounts_b, displsb,
                   A_local, b_local, x, x_old, x_local, global_error,
                   local_error, netN, netA, netB, netX, netBc, netErr>>

\* printf conversions of a double: the digits after rounding to k decimals
\* (ties to even), their number k, the sign, and inf or nan for the values
\* that have no digits
RECURSIVE FracDigits(_, _, _, _)
FracDigits(r, d, k, acc) ==
    IF k = 0 THEN <<acc, r>>
    ELSE FracDigits((r * 10) % d, d, k - 1, acc * 10 + (r * 10) \div d)

RoundedDigits(n, d, k) ==
    LET fd == FracDigits(n % d, d, k, n \div d)
    IN  IF 2 * fd[2] > d \/ (2 * fd[2] = d /\ fd[1] % 2 = 1) THEN fd[1] + 1 ELSE fd[1]

NonFinite(v) ==
    [cls |-> IF IsNaN(v) THEN "nan" ELSE "inf", neg |-> v[1] < 0,
     digits |-> 0, frac |-> 0, exp |-> 0]

\* "%.kf"
FormatF(v, k) ==
    IF ~IsFinite(v) THEN NonFinite(v)
    ELSE [cls |-> "fin", neg |-> v[1] < 0,
          digits |-> RoundedDigits(AbsInt(v[1]), v[2], k), frac |-> k, exp |-> 0]

RECURSIVE SciNorm(_, _, _)
SciNorm(n, d, e) ==
    IF n = 0 THEN <<0, 1, 0>>
    ELSE IF n >= 10 * d THEN SciNorm(n, d * 10, e + 1)
    ELSE IF n < d THEN SciNorm(n * 10, d, e - 1)
    ELSE <<n, d, e>>

RECURSIVE Pow10(_)
Pow10(k) == IF k = 0 THEN 1 ELSE 10 * Pow10(k - 1)

\* "%.ke"
FormatE(v, k) ==
    IF ~IsFinite(v) THEN NonFinite(v)
    ELSE LET m == SciNorm(AbsInt(v[1]), v[2], 0)
             u == RoundedDigits(m[1], m[2], k)
             carry == u >= 10 * Pow10(k)
         IN  [cls |-> "fin", neg |-> v[1] < 0,
              digits |-> IF carry THEN Pow10(k) ELSE u,
              frac |-> k,
              exp |-> IF carry THEN m[3] + 1 ELSE m[3]]

\* lines 161-171: what rank 0 prints
Report(n, p, xr, it, err) ==
    [printed |-> TRUE, N |-> n, procs |-> p,
     x |-> [i \in Idx(IF n < 5 THEN n ELSE 5) |-> FormatF(xr[i], 5)],
     iterations |-> it,
     error |-> FormatE(err, 6)]

\* lines 161-189: report on rank 0, cleanup, MPI_Finalize, return 0
Finish(r) ==
    /\ pc[r] = "report"
    /\ pc' = [pc EXCEPT ![r] = "exited"]
    /\ status' = [status EXCEPT ![r] = 0]
    /\ out' = IF r = 0
              THEN Report(N[0], size, x[0], iterations[0], global_error[0])
              ELSE out
    /\ UNCHANGED <<abort, genVars, ompVars, exactVars, file, size, heap, N, base, rem, local_rows, start_row,
                   A_full, b_full, sendcounts, displsA, sendcounts_b, displsb,
                   A_local, b_local, x, x_old, x_local, iterations, global_error,
                   local_error, rcounts, rdispls, netN, netA, netB, netX, netBc, netErr>>

Next ==
    \/ Load
    \/ LoadFail
    \/ LoadAllocFail
    \/ Counts
    \/ CountsAllocFail
    \/ GatherAllocFail
    \/ \E r \in Ranks : PartitionAllocFail(r)
    \/ \E r \in Ranks : InitXAllocFail(r)
    \/ \E r \in Ranks : Killed(r)
    \/ \E r \in Ranks : BcastN(r)
    \/ \E r \in Ranks : Partition(r)
    \/ \E r \in Ranks : Scatter(r)
    \/ \E r \in Ranks : InitX(r)
    \/ \E r \in Ranks : CopyXOld(r)
    \/ \E r \in Ranks : LocalUpdate(r)
    \/ \E r \in Ranks : Gather(r)
    \/ \E r \in Ranks : Bcast(r)
    \/ \E r \in Ranks : LocalError(r)
    \/ \E r \in Ranks : AllreduceEnter(r)
    \/ \E r \in Ranks : AllreduceReturn(r)
    \/ \E r \in Ranks : LoopCheck(r)
    \/ \E r \in Ranks : Finish(r)

Spec == Init /\ [][Next]_vars

\* ------------------------------------------------------------------------
\* Runs on a system that does not run out of memory, on complete files,
\* with every rank scheduled again and again: a rank that can execute its
\* next statement (or return from the collective it waits in) eventually
\* moves on, and the runtime eventually ends the ranks of an aborted job. A
\* malloc of 0 bytes may still return NULL.
\* ------------------------------------------------------------------------
FilesFair == Files0 \cup Files1 \cup Files2Coupled

InitFair ==
    /\ GenIdle
    /\ OmpIdle
    /\ ExactIdle
    /\ file \in FilesFair
    /\ heap = "ample"
    /\ size \in 1 .. MaxP
    /\ pc = [r \in Ranks |-> IF r = 0 THEN "load" ELSE "bcastN"]
    /\ N = [r \in Ranks |-> 0]
    /\ InitLocals

\* the statements of rank r
RankStep(r) ==
    \/ r = 0 /\ Load
    \/ r = 0 /\ Counts
    \/ BcastN(r)
    \/ Partition(r)
    \/ Scatter(r)
    \/ InitX(r)
    \/ CopyXOld(r)
    \/ LocalUpdate(r)
    \/ Gather(r)
    \/ Bcast(r)
    \/ LocalError(r)
    \/ AllreduceEnter(r)
    \/ AllreduceReturn(r)
    \/ LoopCheck(r)
    \/ Finish(r)

NextFair ==
    \/ LoadAllocFail
    \/ \E r \in Ranks : PartitionAllocFail(r)
    \/ \E r \in Ranks : Killed(r)
    \/ \E r \in Ranks : RankStep(r)

\* rank r can execute its next statement: it is not blocked in a collective
\* and has not exited (the guards of the actions of RankStep)
CanStep(r) ==
    CASE pc[r] = "load" -> Readable(file) /\ file.N >= 0
      [] pc[r] = "bcastN" -> r = 0 \/ netN.sent
      [] pc[r] = "scatter" -> r = 0 \/ (netA[r].sent /\ netB[r].sent)
      [] pc[r] = "gather" -> r # 0 \/ \A s \in Ranks \ {0} : netX[s].round = Round(0)
      [] pc[r] = "bcast" -> r = 0 \/ netBc.round = Round(r)
      [] pc[r] = "allreduce_wait" -> \A s \in Ranks : netErr[s].round = Round(r)
      [] pc[r] = "exited" -> FALSE
      [] OTHER -> TRUE

\* the statements of one round of the loop
LoopPcs == {"copy", "update", "gather", "bcast", "error", "allreduce",
            "allreduce_wait", "check"}

ProgramPoints ==
    {"load", "bcastN", "partition", "counts", "scatter", "initx", "report", "exited"}
        \cup LoopPcs

\* rank r, not blocked, moves to another statement
RankAdvances(r) ==
    /\ r \in Ranks
    /\ CanStep(r)
    /\ \E p \in ProgramPoints \ {pc[r]} : pc' = [pc EXCEPT ![r] = p]

SpecFair ==
    /\ InitFair
    /\ [][NextFair]_vars
    /\ \A r \in Idx(MaxP) : WF_pc(RankAdvances(r))
    /\ \A r \in Idx(MaxP) : WF_vars(r \in Ranks /\ Killed(r))

\* ------------------------------------------------------------------------
\* The row partitioner alone: every rank computes its range and rank 0 its
\* tables, for larger N and more ranks than the solver runs are checked with
\* (the partitioner reads N and size only, the file holds no matrix here)
\* ------------------------------------------------------------------------
InitPart ==
    /\ GenIdle
    /\ OmpIdle
    /\ ExactIdle
    /\ \E n \in 1 .. MaxPartN : file = [N |-> n, A |-> <<>>, b |-> <<>>,
                                      exists |-> TRUE, len |-> 1 + n * n + n]
    /\ size \in 1 .. MaxPartP
    /\ heap = "ample"
    /\ pc = [r \in Ranks |-> "partition"]
    /\ N = [r \in Ranks |-> file.N]
    /\ InitLocals

NextPart ==
    \/ Counts
    \/ \E r \in Ranks : Partition(r)

SpecPart == InitPart /\ [][NextPart]_vars

\* ------------------------------------------------------------------------
\* src/DataSet/generate_data.c: generate_data_file(filename, n) writes n,
\* the rows of A and b; one action per loop iteration, every rand() call
\* returns any value of RandVals. The file is the sequence of the tokens
\* written (fscanf skips the blanks and newlines between them).
\* ------------------------------------------------------------------------
MaxGenN == 2

\* values returned by rand()
RandVals == {0, 19}

\* "%d"
FormatD(k) ==
    [cls |-> "int", neg |-> k < 0, digits |-> AbsInt(k), frac |-> 0, exp |-> 0]

\* the solver is not run
SolverIdle ==
    /\ file = [N |-> 0, A |-> <<>>, b |-> <<>>, exists |-> FALSE, len |-> 0]
    /\ size = 1
    /\ heap = "ample"
    /\ pc = [r \in Ranks |-> "load"]
    /\ N = [r \in Ranks |-> 0]
    /\ InitLocals

\* main, lines 56-66: n > 0, then the call
InitGen ==
    /\ SolverIdle
    /\ OmpIdle
    /\ ExactIdle
    /\ gen_pc = "open"
    /\ gen_n \in 1 .. MaxGenN
    /\ gen_i = 0
    /\ gen_j = 0
    /\ gen_row_sum = Zero
    /\ gen_file = <<>>
    /\ gen_A = <<>>
    /\ gen_b = <<>>

solverVars ==
    <<file, size, heap, pc, status, N, base, rem, local_rows, start_row,
      A_full, b_full, sendcounts, displsA, sendcounts_b, displsb,
      A_local, b_local, x, x_old, x_local, iterations, global_error,
      local_error, rcounts, rdispls, netN, netA, netB, netX, netBc, netErr,
      abort, out>>

\* lines 8-19: the file is opened, n is written, the first row begins
GenOpen ==
    /\ gen_pc = "open"
    /\ gen_file' = <<FormatD(gen_n)>>
    /\ gen_i' = 0
    /\ gen_j' = 0
    /\ gen_row_sum' = Zero
    /\ gen_pc' = "sum"
    /\ UNCHANGED <<solverVars, ompVars, exactVars, gen_n, gen_A, gen_b>>

\* lines 21-25, one iteration: a fresh rand() % 10 is added to row_sum
GenSum ==
    /\ gen_pc = "sum"
    /\ gen_j < gen_n
    /\ IF gen_i # gen_j
       THEN \E rv \in RandVals :
                gen_row_sum' = DAdd(gen_row_sum, DAbs(FromInt(rv % 10)))
       ELSE UNCHANGED gen_row_sum
    /\ gen_j' = gen_j + 1
    /\ UNCHANGED <<solverVars, ompVars, exactVars, gen_pc, gen_n, gen_i, gen_file, gen_A, gen_b>>

\* line 21, exit of the first loop; line 27, start of the second
GenSumEnd ==
    /\ gen_pc = "sum"
    /\ gen_j >= gen_n
    /\ gen_j' = 0
    /\ gen_pc' = "write"
    /\ UNCHANGED <<solverVars, ompVars, exactVars, gen_n, gen_i, gen_row_sum, gen_file, gen_A, gen_b>>

\* lines 27-34, one iteration: entry (i, j) is computed from another
\* rand() and written with "%f "
GenWrite ==
    /\ gen_pc = "write"
    /\ gen_j < gen_n
    /\ \E rv \in RandVals :
           LET v == IF gen_i = gen_j
                    THEN DAdd(DAdd(gen_row_sum, FromInt(rv % 10)), FromInt(1))
                    ELSE FromInt(rv % 10)
           IN  /\ gen_file' = Append(gen_file, FormatF(v, 6))
               /\ gen_A' = Append(gen_A, [row |-> gen_i, col |-> gen_j, val |-> v])
    /\ gen_j' = gen_j + 1
    /\ UNCHANGED <<solverVars, ompVars, exactVars, gen_pc, gen_n, gen_i, gen_row_sum, gen_b>>

\* lines 35-36, 18-19: end of the row, the next row or the loop for b
GenRowEnd ==
    /\ gen_pc = "write"
    /\ gen_j >= gen_n
    /\ gen_j' = 0
    /\ gen_row_sum' = Zero
    /\ IF gen_i + 1 < gen_n
       THEN gen_i' = gen_i + 1 /\ gen_pc' = "sum"
       ELSE gen_i' = 0 /\ gen_pc' = "b"
    /\ UNCHANGED <<solverVars, ompVars, exactVars, gen_n, gen_file, gen_A, gen_b>>

\* lines 39-41, one iteration: b[i] = rand() % 100 is written with "%f "
GenB ==
    /\ gen_pc = "b"
    /\ gen_i < gen_n
    /\ \E rv \in RandVals :
           LET v == FromInt(rv % 100)
           IN  /\ gen_file' = Append(gen_file, FormatF(v, 6))
               /\ gen_b' = Append(gen_b, [row |-> gen_i, val |-> v])
    /\ gen_i' = gen_i + 1
    /\ UNCHANGED <<solverVars, ompVars, exactVars, gen_pc, gen_n, gen_j, gen_row_sum, gen_A>>

\* lines 42-45: the file is closed
GenClose ==
    /\ gen_pc = "b"
    /\ gen_i >= gen_n
    /\ gen_pc' = "closed"
    /\ UNCHANGED <<solverVars, ompVars, exactVars, gen_n, gen_i, gen_j, gen_row_sum, gen_file, gen_A, gen_b>>

NextGen ==
    \/ GenOpen
    \/ GenSum
    \/ GenSumEnd
    \/ GenWrite
    \/ GenRowEnd
    \/ GenB
    \/ GenClose

SpecGen == InitGen /\ [][NextGen]_vars

\* ------------------------------------------------------------------------
\* The loaders: what the fscanf calls of each program make of a token
\* sequence (the k-th call converts the k-th token)
\* ------------------------------------------------------------------------
\* fscanf "%d" on a token without fraction digits
ParseD(tok) == IF tok.neg THEN 0 - tok.digits ELSE tok.digits

\* fscanf "%lf" on a decimal token
ParseLf(tok) ==
    IF tok.cls = "nan" THEN NaN
    ELSE IF tok.cls = "inf" THEN (IF tok.neg THEN <<-1, 0>> ELSE <<1, 0>>)
    ELSE Norm(ParseD(tok), Pow10(tok.frac))

\* N, then all of A row by row, then all of b
ReadMatrixThenVector(toks) ==
    LET n == ParseD(toks[1])
    IN  [N |-> n,
         A |-> [k \in Idx(n * n) |-> ParseLf(toks[2 + k])],
         b |-> [i \in Idx(n) |-> ParseLf(toks[2 + n * n + i])]]

\* N, then for every row its N entries of A followed by its entry of b
ReadAugmentedRows(toks) ==
    LET n == ParseD(toks[1])
    IN  [N |-> n,
         A |-> [k \in Idx(n * n) |-> ParseLf(toks[2 + (k \div n) * (n + 1) + (k % n)])],
         b |-> [i \in Idx(n) |-> ParseLf(toks[2 + i * (n + 1) + n])]]

\* src/MPI/jacobi_mpi.c, lines 29-43
LoadMpi(toks) == ReadMatrixThenVector(toks)

\* src/OpenMP/OpenMP.c, second program, lines 228-248
LoadOmp(toks) == ReadMatrixThenVector(toks)

\* src/OpenMP/OpenMP.c, first program (jacobi_optimized), lines 121-134
LoadOmpOptimized(toks) == ReadAugmentedRows(toks)

\* the serial optimized solver, lines 118-123
LoadSerialOptimized(toks) == ReadAugmentedRows(toks)

\* ------------------------------------------------------------------------
\* The single-process solvers: jacobi (src/OpenMP/OpenMP.c 170-210),
\* jacobi_optimized (src/OpenMP/OpenMP.c 9-84) and jacobi_serial_optimized
\* (src/unnamed/part_002 9-84), each run on a system its main has loaded.
\* The update loop is run by the threads of the parallel region, one action
\* per iteration of the inner loop and one per store; the serial program
\* runs it with its only thread. Every access to a vector is recorded.
\* ------------------------------------------------------------------------
MaxThreads == 2

Programs == {"jacobi", "jacobi_optimized", "jacobi_serial_optimized"}

\* #define MAX_ITER: OpenMP.c 167, OpenMP.c 6, part_002 6
MaxIterOf(p) ==
    CASE p = "jacobi" -> 1000
      [] p = "jacobi_optimized" -> 100000
      [] OTHER -> 10000

\* #define TOLERANCE: OpenMP.c 168, OpenMP.c 7, part_002 7
ToleranceOf(p) ==
    CASE p = "jacobi_optimized" -> <<1, 100000000>>
      [] OTHER -> <<1, 100000>>

\* the content of a block that malloc has returned and nobody has written
Garbage == <<1, -1>>

Fill(n, v) == [i \in Idx(n) |-> v]

\* what a load of the cell c can yield: its content, any double if nobody has
\* written it
Loaded(c) == IF c = Garbage THEN {Zero, FromInt(1), NaN} ELSE {c}

SysOf(f) == [N |-> f.N, A |-> f.A, b |-> f.b]

\* systems on which every program ends after a few rounds
SystemsShort ==
    {SysOf(f) : f \in Files1 \cup Files2}
        \cup {SysOf(f) : f \in {g \in Files2Coupled :
                                    g.A[0] = FromInt(2) /\ g.A[3] = FromInt(2)}}

\* 3x3 systems in which every row but the first reads the row above it
SystemsChained ==
    {SysOf(f) : f \in {g \in Files3 : g.A[3] = FromInt(1) /\ g.A[7] = FromInt(1)}}

\* the systems a program is run on: the one on which the iteration never
\* settles is given to the program with one thread only
SystemsOf(p) ==
    IF p = "jacobi_serial_optimized"
    THEN SystemsShort \cup {SysOf(f) : f \in Files2Coupled}
    ELSE SystemsShort \cup SystemsChained

\* main before the call: x is zeroed at OpenMP.c 137, in the other two
\* programs it is the block malloc returned (OpenMP.c 236, part_002 108)
InitOmp ==
    /\ GenIdle
    /\ SolverIdle
    /\ ExactIdle
    /\ prog \in Programs
    /\ threads \in (IF prog = "jacobi_serial_optimized" THEN {1} ELSE 1 .. MaxThreads)
    /\ sys \in SystemsOf(prog)
    /\ mem = [k \in {"x", "m0", "m1"} |->
                 IF k = "x"
                 THEN Fill(sys.N, IF prog = "jacobi_optimized" THEN Zero ELSE Garbage)
                 ELSE <<>>]
    /\ p_old = "m0"
    /\ p_new = IF prog = "jacobi" THEN "x" ELSE "m1"
    /\ diag = <<>>
    /\ iter = 0
    /\ error = Zero
    /\ mpc = "init"
    /\ owner = <<>>
    /\ th = <<>>
    /\ accesses = {}
    /\ ret = [stored |-> FALSE]

\* jacobi 171-178: x_old is allocated, x is set to zero;
\* the optimized routines, lines 10-17: x_old = calloc, x_new = malloc
OmpAlloc ==
    /\ mpc = "init"
    /\ IF prog = "jacobi"
       THEN /\ mem' = [mem EXCEPT !["m0"] = Fill(sys.N, Garbage),
                                  !["x"] = Fill(sys.N, Zero)]
            /\ mpc' = "copy"
       ELSE /\ mem' = [mem EXCEPT !["m0"] = Fill(sys.N, Zero),
                                  !["m1"] = Fill(sys.N, Garbage)]
            /\ mpc' = "diag"
    /\ UNCHANGED <<solverVars, genVars, exactVars, prog, threads, sys, p_old, p_new, diag, iter,
                   error, owner, th, accesses, ret>>

\* fabs(v) < 1e-20: every value other than 0 that the model holds is larger
NearlyZero(v) == IsFinite(v) /\ v[1] = 0

\* the optimized routines, lines 19-25 (24-30): the diagonal is cached, a
\* diagonal entry that is nearly zero ends the program with EXIT_FAILURE
OmpDiag ==
    /\ mpc = "diag"
    /\ IF \E i \in Idx(sys.N) : NearlyZero(sys.A[i * sys.N + i])
       THEN mpc' = "failed" /\ diag' = diag
       ELSE mpc' = "fork" /\ diag' = [i \in Idx(sys.N) |-> sys.A[i * sys.N + i]]
    /\ UNCHANGED <<solverVars, genVars, exactVars, prog, threads, sys, mem, p_old, p_new, iter,
                   error, owner, th, accesses, ret>>

\* jacobi 182-184: x_old[i] = x[i]
OmpCopy ==
    /\ mpc = "copy"
    /\ mem' = [mem EXCEPT ![p_old] = mem[p_new]]
    /\ mpc' = "fork"
    /\ UNCHANGED <<solverVars, genVars, exactVars, prog, threads, sys, p_old, p_new, diag, iter,
                   error, owner, th, accesses, ret>>

\* the ways the iterations of the loop can be given to T threads: any way for
\* the default schedule of jacobi (line 187), contiguous chunks in the order
\* of the threads for schedule(static) (OpenMP.c 34)
Schedules(p, n, T) ==
    IF p = "jacobi" THEN [Idx(n) -> Idx(T)]
    ELSE {ow \in [Idx(n) -> Idx(T)] : \A i, k \in Idx(n) : i < k => ow[i] <= ow[k]}

\* the private variables of thread t when it takes its next iteration after
\* iteration last, or when none is left
Enter(ow, t, last) ==
    LET mine == {i \in DOMAIN ow : ow[i] = t /\ i > last}
    IN  IF mine = {} THEN [pc |-> "end", i |-> 0, j |-> 0, sum |-> Zero]
        ELSE [pc |-> "sum", i |-> CHOOSE m \in mine : \A k \in mine : m <= k,
              j |-> 0, sum |-> Zero]

\* the loop is entered: OpenMP.c 187-188, OpenMP.c 34-35, part_002 40
OmpFork ==
    /\ mpc = "fork"
    /\ \E ow \in Schedules(prog, sys.N, threads) :
           /\ owner' = ow
           /\ th' = [t \in Idx(threads) |-> Enter(ow, t, -1)]
    /\ accesses' = {}
    /\ mpc' = "region"
    /\ UNCHANGED <<solverVars, genVars, exactVars, prog, threads, sys, mem, p_old, p_new, diag,
                   iter, error, ret>>

\* mutant: the update reads the vector it writes
SourceBuf_InPlace(po, pn) == pn

\* the vector the update reads: x_old (OpenMP.c 192, OpenMP.c 42, part_002 43)
SourceBuf(po, pn) == po

Access(t, kind, buf, idx) ==
    [t |-> t, kind |-> kind, buf |-> buf, idx |-> idx,
     nth |-> Cardinality({a \in accesses : a.kind = kind /\ a.buf = buf /\ a.idx = idx
                                             /\ kind = "w"})]

\* one iteration of the inner loop: OpenMP.c 190-194 (j = i is skipped),
\* OpenMP.c 41-43 and part_002 42-43 (every j is added)
ThreadSum(t) ==
    /\ mpc = "region"
    /\ t \in Idx(threads)
    /\ th[t].pc = "sum"
    /\ LET i == th[t].i
           j == th[t].j
           src == SourceBuf(p_old, p_new)
           skip == prog = "jacobi" /\ j = i
       IN  /\ \E v \in Loaded(mem[src][j]) :
                  LET sum == IF skip THEN th[t].sum
                             ELSE DAdd(th[t].sum, DMul(sys.A[i * sys.N + j], v))
                  IN  th' = [th EXCEPT ![t] =
                                [pc |-> IF j + 1 < sys.N THEN "sum" ELSE "write",
                                 i |-> i, j |-> j + 1, sum |-> sum]]
           /\ accesses' = IF skip THEN accesses
                          ELSE accesses \cup {Access(t, "r", src, j)}
    /\ UNCHANGED <<solverVars, genVars, exactVars, prog, threads, sys, mem, p_old, p_new, diag,
                   iter, error, mpc, owner, ret>>

\* the store of the iteration: OpenMP.c 195; OpenMP.c 45-48 and part_002
\* 44-45, where the diagonal term is first taken out of the sum
ThreadWrite(t) ==
    /\ mpc = "region"
    /\ t \in Idx(threads)
    /\ th[t].pc = "write"
    /\ LET i == th[t].i
           src == SourceBuf(p_old, p_new)
       IN  /\ \E v \in Loaded(mem[src][i]) :
                  LET val == IF prog = "jacobi"
                             THEN DDiv(DSub(sys.b[i], th[t].sum), sys.A[i * sys.N + i])
                             ELSE DDiv(DSub(sys.b[i],
                                            DSub(th[t].sum, DMul(diag[i], v))), diag[i])
                  IN  mem' = [mem EXCEPT ![p_new][i] = val]
           /\ accesses' = accesses \cup {Access(t, "w", p_new, i)}
                              \cup (IF prog = "jacobi" THEN {}
                                    ELSE {Access(t, "r", src, i)})
           /\ th' = [th EXCEPT ![t] = Enter(owner, t, i)]
    /\ UNCHANGED <<solverVars, genVars, exactVars, prog, threads, sys, p_old, p_new, diag,
                   iter, error, mpc, owner, ret>>

\* every thread has run its iterations (the barrier that ends the loop)
Joined == mpc = "region" /\ \A t \in Idx(threads) : th[t].pc = "end"

\* jacobi 199-202: the sum of |x[i] - x_old[i]|
RECURSIVE ErrorL1(_, _, _)
ErrorL1(xn, xo, n) ==
    IF n = 0 THEN Zero
    ELSE DAdd(ErrorL1(xn, xo, n - 1), DAbs(DSub(xn[n - 1], xo[n - 1])))

\* OpenMP.c 52-57, part_002 49-53: the largest |x_new[i] - x_old[i]|
RECURSIVE ErrorMax(_, _, _)
ErrorMax(xn, xo, n) ==
    IF n = 0 THEN Zero
    ELSE LET e == ErrorMax(xn, xo, n - 1)
             diff == DAbs(DSub(xn[n - 1], xo[n - 1]))
         IN  IF DGt(diff, e) THEN diff ELSE e

\* the condition of the do-while: OpenMP.c 206, OpenMP.c 63, part_002 61
ContinueOf(p, err, it) == DGt(err, ToleranceOf(p)) /\ it < MaxIterOf(p)

\* jacobi 199-209: the error, iter++, the loop condition, *iterations = iter
OmpErrorL1 ==
    /\ Joined
    /\ prog = "jacobi"
    /\ error' = ErrorL1(mem[p_new], mem[p_old], sys.N)
    /\ iter' = iter + 1
    /\ IF ContinueOf(prog, error', iter')
       THEN mpc' = "copy" /\ ret' = ret
       ELSE mpc' = "done" /\ ret' = [stored |-> TRUE, iterations |-> iter']
    /\ UNCHANGED <<solverVars, genVars, exactVars, prog, threads, sys, mem, p_old, p_new, diag,
                   owner, th, accesses>>

\* the optimized routines, lines 52-57 (49-53)
OmpErrorMax ==
    /\ Joined
    /\ prog # "jacobi"
    /\ error' = ErrorMax(mem[p_new], mem[p_old], sys.N)
    /\ mpc' = "swap"
    /\ UNCHANGED <<solverVars, genVars, exactVars, prog, threads, sys, mem, p_old, p_new, diag,
                   iter, owner, th, accesses, ret>>

\* mutant: x_old = x_new; x_new = x_old, without tmp
SwapNew_NoTmp(po, pn) == pn

\* what x_new points to after tmp = x_old; x_old = x_new; x_new = tmp
SwapNew(po, pn) == po

\* the optimized routines, lines 60-63 (56-61): the swap, iter++, the loop
\* condition
OmpSwap ==
    /\ mpc = "swap"
    /\ p_old' = p_new
    /\ p_new' = SwapNew(p_old, p_new)
    /\ iter' = iter + 1
    /\ mpc' = IF ContinueOf(prog, error, iter') THEN "fork" ELSE "out"
    /\ UNCHANGED <<solverVars, genVars, exactVars, prog, threads, sys, mem, diag, error, owner,
                   th, accesses, ret>>

\* mutant: the result is copied from x_new
OutSource_New(po, pn) == pn

\* the vector the result is copied from: x_old (OpenMP.c 68, part_002 67)
OutSource(po, pn) == po

\* the optimized routines, lines 68-70 (64-67): x_out[i] = x_old[i] and
\* *iterations = iter
OmpOut ==
    /\ mpc = "out"
    /\ mem' = [mem EXCEPT !["x"] = mem[OutSource(p_old, p_new)]]
    /\ ret' = [stored |-> TRUE, iterations |-> iter]
    /\ mpc' = "done"
    /\ UNCHANGED <<solverVars, genVars, exactVars, prog, threads, sys, p_old, p_new, diag, iter,
                   error, owner, th, accesses>>

NextOmp ==
    \/ OmpAlloc
    \/ OmpDiag
    \/ OmpCopy
    \/ OmpFork
    \/ \E t \in Idx(MaxThreads) : ThreadSum(t)
    \/ \E t \in Idx(MaxThreads) : ThreadWrite(t)
    \/ OmpErrorL1
    \/ OmpErrorMax
    \/ OmpSwap
    \/ OmpOut

SpecOmp == InitOmp /\ [][NextOmp]_vars

\* ------------------------------------------------------------------------
\* The rounds of the MPI loop (src/MPI/jacobi_mpi.c 108-159) on integer
\* systems, without any bound on the size of the numbers: a value is a
\* numerator over a denominator, both integers of any length, and all the
\* entries of a vector share one denominator (a power of the least common
\* multiple of the diagonal). The local update and the local error of the
\* ranks interleave; the copy to x_old, the gather with its broadcast and
\* the all-reduce with the loop condition are one step each.
\* ------------------------------------------------------------------------
\* integers of any length: a sign and the digits to the base 10000, lowest
\* digit first, no leading zero digit
RECURSIVE MagOf(_)
MagOf(n) == IF n = 0 THEN <<>> ELSE <<n % 10000>> \o MagOf(n \div 10000)

Big(n) == [neg |-> n < 0, mag |-> MagOf(AbsInt(n))]

Digit(m, i) == IF i <= Len(m) THEN m[i] ELSE 0

RECURSIVE MagAdd(_, _, _, _)
MagAdd(a, b, i, c) ==
    IF i > Len(a) /\ i > Len(b) THEN MagOf(c)
    ELSE LET s == Digit(a, i) + Digit(b, i) + c
         IN  <<s % 10000>> \o MagAdd(a, b, i + 1, s \div 10000)

RECURSIVE Trim(_)
Trim(m) ==
    IF m # <<>> /\ m[Len(m)] = 0 THEN Trim(SubSeq(m, 1, Len(m) - 1)) ELSE m

\* a - b for a >= b, from digit i on with the borrow c
RECURSIVE MagSub(_, _, _, _)
MagSub(a, b, i, c) ==
    IF i > Len(a) THEN <<>>
    ELSE LET d == a[i] - Digit(b, i) - c
         IN  IF d < 0 THEN <<d + 10000>> \o MagSub(a, b, i + 1, 1)
             ELSE <<d>> \o MagSub(a, b, i + 1, 0)

\* -1, 0 or 1: a against b on the digits 1 .. i, both of the same length
RECURSIVE MagCmp(_, _, _)
MagCmp(a, b, i) ==
    IF Len(a) # Len(b) THEN (IF Len(a) < Len(b) THEN -1 ELSE 1)
    ELSE IF i = 0 THEN 0
    ELSE IF a[i] # b[i] THEN (IF a[i] < b[i] THEN -1 ELSE 1)
    ELSE MagCmp(a, b, i - 1)

\* a * k for 0 <= k <= 100000
RECURSIVE MagMul(_, _, _, _)
MagMul(a, k, i, c) ==
    IF i > Len(a) THEN MagOf(c)
    ELSE LET s == a[i] * k + c
         IN  <<s % 10000>> \o MagMul(a, k, i + 1, s \div 10000)

BNeg(a) == IF a.mag = <<>> THEN a ELSE [neg |-> ~a.neg, mag |-> a.mag]

BAdd(a, b) ==
    IF a.neg = b.neg THEN [neg |-> a.neg, mag |-> MagAdd(a.mag, b.mag, 1, 0)]
    ELSE LET c == MagCmp(a.mag, b.mag, Len(a.mag))
         IN  IF c = 0 THEN Big(0)
             ELSE IF c > 0 THEN [neg |-> a.neg, mag |-> Trim(MagSub(a.mag, b.mag, 1, 0))]
             ELSE [neg |-> b.neg, mag |-> Trim(MagSub(b.mag, a.mag, 1, 0))]

BSub(a, b) == BAdd(a, BNeg(b))

\* a * k for an integer k with |k| <= 100000
BMul(a, k) ==
    IF k = 0 \/ a.mag = <<>> THEN Big(0)
    ELSE [neg |-> a.neg # (k < 0), mag |-> MagMul(a.mag, AbsInt(k), 1, 0)]

BAbs(a) == [neg |-> FALSE, mag |-> a.mag]

BLe(a, b) == ~BSub(b, a).neg

\* the systems: the 3x3 example of the documentation, 3x3 systems whose
\* rows 1 and 2 both read x[0], and 2x2 systems whose rows read each other;
\* every one is strictly diagonally dominant by rows
SystemOf(n, Aseq, bseq) ==
    [N |-> n, A |-> [k \in Idx(n * n) |-> Aseq[k + 1]], b |-> [i \in Idx(n) |-> bseq[i + 1]]]

Example == SystemOf(3, <<4, 1, 2, 3, 5, 1, 1, 1, 3>>, <<4, 7, 3>>)

ExactSystems ==
    {Example}
        \cup {SystemOf(3, <<1, 0, 0, a, 3, 0, c, 0, 3>>, <<1, v, 0>>) :
                  a \in {1, 2}, c \in {-2, 1, 2}, v \in {0, 1}}
        \cup {SystemOf(2, <<d, 1, -1, 2>>, <<1, 0>>) : d \in {2, 3}}

RECURSIVE LcmDiag(_, _)
LcmDiag(s, n) ==
    IF n = 0 THEN 1
    ELSE LET l == LcmDiag(s, n - 1)
             d == AbsInt(s.A[(n - 1) * s.N + n - 1])
         IN  (l \div GCD(l, d)) * d

\* the factor by which the denominator grows in a round
Scale(s) == LcmDiag(s, s.N)

InitExact ==
    /\ GenIdle
    /\ SolverIdle
    /\ OmpIdle
    /\ ex_sys \in ExactSystems
    /\ ex_size \in {p \in 1 .. MaxP : p <= ex_sys.N}
    /\ ex_pc = [r \in Idx(ex_size) |-> "copy"]
    /\ ex_x = [den |-> Big(1), num |-> [i \in Idx(ex_sys.N) |-> Big(0)]]
    /\ ex_x_old = <<>>
    /\ ex_x_local = [r \in Idx(ex_size) |-> <<>>]
    /\ ex_local_error = [r \in Idx(ex_size) |-> Big(0)]
    /\ ex_global_error = [den |-> Big(1), num |-> Big(0)]
    /\ ex_iterations = 0

AllAt(p) == \A r \in Idx(ex_size) : ex_pc[r] = p

\* line 110
ExactCopy ==
    /\ AllAt("copy")
    /\ ex_x_old' = ex_x
    /\ ex_pc' = [r \in Idx(ex_size) |-> "update"]
    /\ UNCHANGED <<solverVars, genVars, ompVars, ex_sys, ex_size, ex_x, ex_x_local,
                   ex_local_error, ex_global_error, ex_iterations>>

\* mutant: the diagonal term is not left out of the sum
RECURSIVE ExactSum_WithDiagonal(_, _, _, _)
ExactSum_WithDiagonal(s, xo, i, n) ==
    IF n = 0 THEN Big(0)
    ELSE BAdd(ExactSum_WithDiagonal(s, xo, i, n - 1),
              BMul(xo.num[n - 1], s.A[i * s.N + n - 1]))

\* lines 115-118: the numerator of the sum over j < n, j # i, of
\* A[i][j] * x_old[j]
RECURSIVE ExactSum(_, _, _, _)
ExactSum(s, xo, i, n) ==
    IF n = 0 THEN Big(0)
    ELSE IF n - 1 = i THEN ExactSum(s, xo, i, n - 1)
    ELSE BAdd(ExactSum(s, xo, i, n - 1), BMul(xo.num[n - 1], s.A[i * s.N + n - 1]))

\* line 119: the numerator of (b[i] - sum) / A[i][i] over the denominator
\* of x_old times Scale
ExactRow(s, xo, i) ==
    BMul(BSub(BMul(xo.den, s.b[i]), ExactSum(s, xo, i, s.N)),
         Scale(s) \div s.A[i * s.N + i])

\* lines 112-120
ExactUpdate(r) ==
    /\ r \in Idx(ex_size)
    /\ ex_pc[r] = "update"
    /\ ex_x_local' = [ex_x_local EXCEPT ![r] =
           [li \in Idx(LocalRows(ex_sys.N, ex_size, r)) |->
               ExactRow(ex_sys, ex_x_old, StartRow(ex_sys.N, ex_size, r) + li)]]
    /\ ex_pc' = [ex_pc EXCEPT ![r] = "gather"]
    /\ UNCHANGED <<solverVars, genVars, ompVars, ex_sys, ex_size, ex_x, ex_x_old,
                   ex_local_error, ex_global_error, ex_iterations>>

\* the rank that owns row i
RankOfRow(n, p, i) ==
    CHOOSE r \in Idx(p) : StartRow(n, p, r) <= i /\ i < StartRow(n, p, r) + LocalRows(n, p, r)

\* lines 122-141: the segments are gathered and the vector is broadcast
ExactGather ==
    /\ AllAt("gather")
    /\ ex_x' = [den |-> BMul(ex_x_old.den, Scale(ex_sys)),
                num |-> [i \in Idx(ex_sys.N) |->
                            LET r == RankOfRow(ex_sys.N, ex_size, i)
                            IN  ex_x_local[r][i - StartRow(ex_sys.N, ex_size, r)]]]
    /\ ex_pc' = [r \in Idx(ex_size) |-> "error"]
    /\ UNCHANGED <<solverVars, genVars, ompVars, ex_sys, ex_size, ex_x_old, ex_x_local,
                   ex_local_error, ex_global_error, ex_iterations>>

\* lines 144-148: the numerator of the sum of |x[i] - x_old[i]| over the
\* rows from .. from + n - 1, over the denominator of x
RECURSIVE ExactErrorLoop(_, _, _, _, _)
ExactErrorLoop(s, xn, xo, from, n) ==
    IF n = 0 THEN Big(0)
    ELSE BAdd(ExactErrorLoop(s, xn, xo, from, n - 1),
              BAbs(BSub(xn.num[from + n - 1], BMul(xo.num[from + n - 1], Scale(s)))))

ExactError(r) ==
    /\ r \in Idx(ex_size)
    /\ ex_pc[r] = "error"
    /\ ex_local_error' = [ex_local_error EXCEPT ![r] =
           ExactErrorLoop(ex_sys, ex_x, ex_x_old, StartRow(ex_sys.N, ex_size, r),
                          LocalRows(ex_sys.N, ex_size, r))]
    /\ ex_pc' = [ex_pc EXCEPT ![r] = "allreduce"]
    /\ UNCHANGED <<solverVars, genVars, ompVars, ex_sys, ex_size, ex_x, ex_x_old,
                   ex_x_local, ex_global_error, ex_iterations>>

RECURSIVE ExactReduceSum(_, _)
ExactReduceSum(contrib, p) ==
    IF p = 0 THEN Big(0) ELSE BAdd(ExactReduceSum(contrib, p - 1), contrib[p - 1])

\* err > TOLERANCE, for err >= 0
AboveTolerance(err) == ~BLe(BMul(err.num, TolDen), err.den)

\* lines 151-159: the all-reduce, iterations++ and the loop condition
ExactReduce ==
    /\ AllAt("allreduce")
    /\ ex_global_error' = [den |-> ex_x.den, num |-> ExactReduceSum(ex_local_error, ex_size)]
    /\ ex_iterations' = ex_iterations + 1
    /\ ex_pc' = [r \in Idx(ex_size) |->
                    IF AboveTolerance(ex_global_error') /\ ex_iterations' < MAX_ITER
                    THEN "copy" ELSE "report"]
    /\ UNCHANGED <<solverVars, genVars, ompVars, ex_sys, ex_size, ex_x, ex_x_old,
                   ex_x_local, ex_local_error>>

NextExact ==
    \/ ExactCopy
    \/ \E r \in Idx(MaxP) : ExactUpdate(r)
    \/ ExactGather
    \/ \E r \in Idx(MaxP) : ExactError(r)
    \/ ExactReduce

SpecExact == InitExact /\ [][NextExact]_vars

\* ------------------------------------------------------------------------
\* Positions in main
\* ------------------------------------------------------------------------
\* rank r has computed its row range
Partitioned(r) == pc[r] \in {"counts", "scatter", "initx", "report"} \cup LoopPcs

\* rank r has returned from the two MPI_Scatterv calls
Scattered(r) == pc[r] \in {"initx", "report"} \cup LoopPcs

RowsOf(r) == start_row[r] .. (start_row[r] + local_rows[r] - 1)

\* ------------------------------------------------------------------------
\* C3: once every rank has computed its range, the ranges are contiguous in
\* rank order, pairwise disjoint, cover 0..N-1 exactly, differ in size by at
\* most one, and exactly the ranks r < N mod P have the larger size.
\* ------------------------------------------------------------------------
C3_PartitionBalanced ==
    (\A r \in Ranks : Partitioned(r)) =>
        LET n == file.N
        IN  /\ start_row[0] = 0
            /\ \A r \in Ranks : local_rows[r] >= 0
            /\ \A r \in Ranks \ {0} : start_row[r] = start_row[r - 1] + local_rows[r - 1]
            /\ start_row[size - 1] + local_rows[size - 1] = n
            /\ \A r, s \in Ranks : r # s => RowsOf(r) \cap RowsOf(s) = {}
            /\ UNION {RowsOf(r) : r \in Ranks} = Idx(n)
            /\ \A r, s \in Ranks : local_rows[r] - local_rows[s] <= 1
            /\ \A r \in Ranks :
                   (r < n % size) <=> (local_rows[r] = local_rows[size - 1] + 1)

\* an uneven split with at least three ranks, all ranges computed
C3_Witness ==
    /\ size >= 3
    /\ file.N % size >= 1
    /\ file.N % size < size - 1
    /\ file.N > size
    /\ \A r \in Ranks : Partitioned(r)

\* ------------------------------------------------------------------------
\* C4: the scatter tables and, in every round, the gather tables of rank 0
\* hold for every rank r the count and displacement that r computed for
\* itself, and after the scatter every rank holds exactly its rows of A and
\* its entries of b.
\* ------------------------------------------------------------------------
C4_TablesAgree ==
    /\ pc[0] \in ({"scatter", "initx", "report"} \cup LoopPcs) =>
           \A r \in Ranks : Partitioned(r) =>
               /\ sendcounts[r] = local_rows[r] * N[r]
               /\ displsA[r] = start_row[r] * N[r]
               /\ sendcounts_b[r] = local_rows[r]
               /\ displsb[r] = start_row[r]
    /\ pc[0] \in {"bcast", "error", "allreduce", "allreduce_wait", "check"} =>
           \A r \in Ranks :
               /\ rcounts[r] = local_rows[r]
               /\ rdispls[r] = start_row[r]
    /\ \A r \in Ranks : Scattered(r) =>
           /\ A_local[r] = [k \in Idx(local_rows[r] * N[r]) |->
                               file.A[(start_row[r] + (k \div N[r])) * N[r] + (k % N[r])]]
           /\ b_local[r] = [li \in Idx(local_rows[r]) |-> file.b[start_row[r] + li]]

\* a rank other than 0 holds a block that starts after row 0, next to a
\* rank that holds two rows, and rank 0 has built its gather tables
C4_Witness ==
    /\ size = 2
    /\ file.N = 3
    /\ Scattered(0) /\ Scattered(1)
    /\ local_rows[0] = 2 /\ start_row[1] = 2
    /\ A_local[1] # A_local[0]
    /\ pc[0] = "bcast"

\* rank r has left the do-while loop
Terminated(r) == pc[r] = "report" \/ (pc[r] = "exited" /\ status[r] = 0)

\* rank r is in the loop body and has returned from the MPI_Bcast of x
AfterBcast(r) == pc[r] \in {"error", "allreduce", "allreduce_wait", "check"}

\* ------------------------------------------------------------------------
\* C1: the x_old that the local update of a rank reads is all zeros in
\* round 1; in round k >= 2 it is the full N-vector that rank 0 gathered
\* and broadcast in round k-1 (the last broadcast carries the number k-1,
\* and rank 0 still holds that gathered vector).
\* ------------------------------------------------------------------------
C1_UpdateReadsLastBroadcast ==
    \A r \in Ranks : pc[r] \in {"update", "gather"} =>
        /\ DOMAIN x_old[r] = Idx(N[r])
        /\ IF iterations[r] = 0
           THEN x_old[r] = Zeros(N[r])
           ELSE /\ netBc.round = iterations[r]
                /\ x_old[r] = netBc.data
                /\ x_old[r] = x[0]

\* a rank other than 0 has run the update of a round >= 2 on a vector that
\* is not the initial one, while rank 0 already holds a different new value
C1_Witness ==
    /\ size = 2
    /\ pc[1] = "gather" /\ pc[0] = "gather"
    /\ iterations[1] >= 1
    /\ x_old[1] # Zeros(N[1])
    /\ local_rows[0] >= 1
    /\ x_local[0][0] # x_old[1][0]

\* ------------------------------------------------------------------------
\* C2: ranks that have returned from the all-reduce of a round hold the same
\* global_error and the same counter; ranks that have left the loop have the
\* same iteration count and the same reason; a rank still in the loop when
\* another has left it is in that last round and past its gather and
\* broadcast; after an exit for a bad N no rank is in a collective.
\* ------------------------------------------------------------------------
StopReason(r) ==
    IF DLe(global_error[r], TOLERANCE) THEN "converged"
    ELSE IF iterations[r] = MAX_ITER THEN "max_iter" ELSE "other"

C2_SameDecision ==
    /\ \A r, s \in Ranks : pc[r] = "check" /\ pc[s] = "check" =>
           /\ global_error[r] = global_error[s]
           /\ iterations[r] = iterations[s]
    /\ \A r, s \in Ranks : Terminated(r) /\ Terminated(s) =>
           /\ iterations[r] = iterations[s]
           /\ global_error[r] = global_error[s]
           /\ StopReason(r) = StopReason(s)
    /\ \A r, s \in Ranks : Terminated(s) /\ pc[r] \in LoopPcs =>
           /\ pc[r] \in {"allreduce_wait", "check"}
           /\ Round(r) = iterations[s]
           /\ netErr[s].round = Round(r)
           /\ pc[r] = "check" => global_error[r] = global_error[s]
    /\ \A r, s \in Ranks : Terminated(s) => pc[r] \in LoopPcs \cup {"report", "exited"}
    /\ \A r, s \in Ranks : (status[s] = 1 /\ abort.cause = "none") =>
           pc[r] \in {"load", "bcastN", "exited"}
    /\ \A r, s \in Ranks : pc[r] \in LoopPcs /\ pc[s] \in LoopPcs =>
           Round(r) - Round(s) <= 1

\* one rank has left the loop after several rounds, the other is about to
C2_Witness ==
    /\ size = 2
    /\ Terminated(0)
    /\ pc[1] = "check"
    /\ iterations[0] >= 3
    /\ global_error[0] # Zero

\* ------------------------------------------------------------------------
\* C5: after the gather and the broadcast of a round every rank holds the
\* same full N-vector x, and x[i] is the value that the one rank owning
\* row i computed in this round.
\* ------------------------------------------------------------------------
Owners(i) == {s \in Ranks : i \in RowsOf(s)}

C5_GatherBroadcast ==
    /\ \A r \in Ranks : pc[r] \in {"error", "allreduce"} =>
           /\ DOMAIN x[r] = Idx(N[r])
           /\ \A i \in Idx(N[r]) :
                  /\ Cardinality(Owners(i)) = 1
                  /\ \A s \in Owners(i) : x[r][i] = x_local[s][i - start_row[s]]
    /\ \A r, s \in Ranks : AfterBcast(r) /\ AfterBcast(s) /\ Round(r) = Round(s) =>
           x[r] = x[s]

\* both ranks hold the broadcast vector of a round >= 2, whose entries come
\* from different ranks and differ from each other
C5_Witness ==
    /\ size = 2
    /\ file.N = 3
    /\ pc[0] = "error" /\ pc[1] = "error"
    /\ iterations[1] >= 1
    /\ x[1][2] = x_local[1][0]
    /\ x[1][1] = x_local[0][1]
    /\ x[1][1] # x[1][2]
    /\ x[1][0] # x[1][1]

\* ------------------------------------------------------------------------
\* C6: the global_error a rank holds after the all-reduce of a round is the
\* sum over all rows 0..N-1 of |x[i] - x_old[i]|, every row counted once,
\* and it is the same on every rank.
\* ------------------------------------------------------------------------
RECURSIVE L1Distance(_, _, _)
L1Distance(xa, xb, n) ==
    IF n = 0 THEN Zero
    ELSE DAdd(L1Distance(xa, xb, n - 1), DAbs(DSub(xa[n - 1], xb[n - 1])))

C6_GlobalError ==
    /\ \A r \in Ranks : pc[r] = "check" =>
           global_error[r] = L1Distance(x[r], x_old[r], N[r])
    /\ \A r, s \in Ranks : pc[r] = "check" /\ pc[s] = "check" =>
           global_error[r] = global_error[s]

\* two ranks hold a global error to which each contributed a different,
\* non-zero local error
C6_Witness ==
    /\ size = 2
    /\ pc[0] = "check" /\ pc[1] = "check"
    /\ local_error[0] # Zero /\ local_error[1] # Zero
    /\ local_error[0] # local_error[1]
    /\ IsFinite(global_error[1])
    /\ iterations[1] >= 1

\* ------------------------------------------------------------------------
\* C7: a rank starts a further round only if the round before ended with a
\* global error that is not <= TOLERANCE, and it leaves the loop only from
\* the end of a complete round: with at least one round counted and the
\* loop condition false on the error and the counter of that round.
\* ------------------------------------------------------------------------
C7_StopsAtFirstConvergedRound ==
    /\ \A r \in Ranks : pc[r] \in (LoopPcs \ {"check"}) /\ iterations[r] >= 1 =>
           ~DLe(global_error[r], TOLERANCE)
    /\ \A r \in Ranks : Terminated(r) =>
           /\ iterations[r] >= 1
           /\ ~Continue(global_error[r], iterations[r])
           /\ netErr[r].round = iterations[r]
           /\ netBc.round = iterations[r]

\* a rank has left the loop after a round whose error is exactly TOLERANCE
C7_Witness ==
    \E r \in Ranks :
        /\ Terminated(r)
        /\ global_error[r] = TOLERANCE
        /\ iterations[r] = 1

\* ------------------------------------------------------------------------
\* C8: the counter stays within 0..MAX_ITER and is at least 1 when the
\* loop has been left; a rank that leaves the loop although no round
\* reached an error <= TOLERANCE does so with the counter at MAX_ITER;
\* every rank that leaves the loop exits with status 0.
\* ------------------------------------------------------------------------
C8_CapReachedOrConverged ==
    \A r \in Ranks :
        /\ iterations[r] >= 0 /\ iterations[r] <= MAX_ITER
        /\ Terminated(r) => iterations[r] >= 1
        /\ (Terminated(r) /\ ~DLe(global_error[r], TOLERANCE)) =>
               iterations[r] = MAX_ITER
        /\ (pc[r] = "exited" /\ N[r] > 0 /\ abort.cause = "none") => status[r] = 0

\* ------------------------------------------------------------------------
\* C9: a rank only moves forward through INIT, SCATTERED, ITERATING and the
\* state after the loop; the scatter is left once, towards the zeroing of
\* x, and never entered again; the loop is entered from there only and
\* left from the end of a round only; nothing runs after the exit.
\* ------------------------------------------------------------------------
PhaseOf(p, st) ==
    IF p \in {"load", "bcastN", "partition", "counts", "scatter"} THEN 0
    ELSE IF p = "initx" THEN 1
    ELSE IF p \in LoopPcs THEN 2
    ELSE IF p = "report" THEN 3
    ELSE IF st = 1 THEN 5 ELSE 4

C9_Step(r) ==
    /\ PhaseOf(pc'[r], status'[r]) >= PhaseOf(pc[r], status[r])
    /\ (pc[r] # pc'[r] /\ pc'[r] = "scatter") => pc[r] \in {"partition", "counts"}
    /\ (pc[r] # pc'[r] /\ pc[r] = "scatter") =>
           pc'[r] = "initx" \/ (pc'[r] = "exited" /\ abort'.cause # "none")
    /\ (pc[r] # pc'[r] /\ pc'[r] = "initx") => pc[r] = "scatter"
    /\ (pc[r] # pc'[r] /\ pc'[r] = "copy") => pc[r] \in {"initx", "check"}
    /\ (pc[r] # pc'[r] /\ pc'[r] = "report") => pc[r] = "check"
    /\ (pc[r] = "exited") => (pc'[r] = "exited" /\ status'[r] = status[r])
    /\ (A_local'[r] # A_local[r] \/ b_local'[r] # b_local[r]) => pc[r] = "scatter"
    /\ (pc[r] = "exited" \/ pc[r] = "report") =>
           /\ x'[r] = x[r]
           /\ iterations'[r] = iterations[r]
           /\ global_error'[r] = global_error[r]

C9_ControllerOrder == [][\A r \in Ranks : C9_Step(r)]_vars

\* a rank has gone through all the states: it has left the loop after more
\* than one round, holding the block it got from the scatter
C9_Witness ==
    \E r \in Ranks :
        /\ pc[r] = "exited" /\ status[r] = 0
        /\ iterations[r] >= 2
        /\ local_rows[r] >= 1
        /\ Size(A_local[r]) = local_rows[r] * N[r]

\* ------------------------------------------------------------------------
\* C10: for every local row li, global row i = start_row + li, the update
\* yields x_local[li] = (b_local[li] - S) / A_local[li][i] with S the sum of
\* A_local[li][j] * x_old[j] over j # i, and A_local[li][i] is the diagonal
\* entry of row i of A; for finite values and a non-zero diagonal this is
\* the row equation A[i][i] * x_local[li] + S = b[i].
\* ------------------------------------------------------------------------
OffDiagSum(Al, xo, n, li, i) ==
    LET RECURSIVE Upto(_)
        Upto(k) == IF k = 0 THEN Zero
                   ELSE IF k - 1 = i THEN Upto(k - 1)
                   ELSE DAdd(Upto(k - 1), DMul(Al[li * n + (k - 1)], xo[k - 1]))
    IN  Upto(n)

C10_JacobiRow ==
    \A r \in Ranks : pc[r] = "gather" =>
        /\ DOMAIN x_local[r] = Idx(local_rows[r])
        /\ \A li \in Idx(local_rows[r]) :
               LET i == start_row[r] + li
                   d == A_local[r][li * N[r] + i]
                   S == OffDiagSum(A_local[r], x_old[r], N[r], li, i)
               IN  /\ d = file.A[i * N[r] + i]
                   /\ x_local[r][li] = DDiv(DSub(b_local[r][li], S), d)
                   /\ (d # Zero /\ IsFinite(S)) =>
                          /\ IsFinite(x_local[r][li])
                          /\ DAdd(DMul(d, x_local[r][li]), S) = file.b[i]

\* a rank whose block does not start at row 0 has updated a row whose
\* diagonal is 2 and whose off-diagonal term is not zero
C10_Witness ==
    \E r \in Ranks : \E li \in Idx(local_rows[r]) : \E j \in Idx(N[r]) :
        /\ pc[r] = "gather"
        /\ start_row[r] > 0
        /\ j # start_row[r] + li
        /\ A_local[r][li * N[r] + j] # Zero
        /\ x_old[r][j] # Zero
        /\ A_local[r][li * N[r] + start_row[r] + li] = FromInt(2)
        /\ IsFinite(x_local[r][li])
        /\ x_local[r][li] # Zero

\* ------------------------------------------------------------------------
\* C11: on a system that does not run out of memory, a rank that owns no
\* row (N > 0, local_rows = 0) never causes an abort; it sends its (empty)
\* segment to the gather and takes the broadcast of every round, its local
\* error is exactly 0 and is what it hands to the all-reduce, its buffers
\* A_local, b_local and x_local hold no element, and when another rank has
\* left the loop it is in the last all-reduce or has left the loop too.
\* ------------------------------------------------------------------------
ZeroRowRank(r) ==
    /\ N[r] > 0
    /\ pc[r] \notin {"load", "bcastN"}
    /\ LocalRows(N[r], size, r) = 0

C11_ZeroRowWorkersTakePart ==
    \A r \in Ranks : (ZeroRowRank(r) /\ heap = "ample") =>
        /\ abort.cause = "none"
        /\ A_local[r] = <<>> /\ b_local[r] = <<>> /\ x_local[r] = <<>>
        /\ pc[r] \in {"bcast", "error", "allreduce", "allreduce_wait", "check"} =>
               netX[r].round = Round(r) /\ netX[r].data = <<>>
        /\ AfterBcast(r) => x[r] = netBc.data /\ netBc.round = Round(r)
        /\ pc[r] \in {"allreduce", "allreduce_wait", "check"} => local_error[r] = Zero
        /\ pc[r] \in {"allreduce_wait", "check"} =>
               netErr[r] = [round |-> Round(r), val |-> Zero]
        /\ \A s \in Ranks : Terminated(s) =>
               \/ pc[r] \in {"allreduce_wait", "check"}
               \/ Terminated(r)

\* ------------------------------------------------------------------------
\* C12: when the matrix of a readable file has a zero on its diagonal, no
\* rank begins a Jacobi round or reaches the report, and every rank that
\* has exited has done so with a non-zero status.
\* ------------------------------------------------------------------------
HasZeroDiagonal(f) == f.N > 0 /\ \E i \in Idx(f.N) : f.A[i * f.N + i] = Zero

C12_ZeroDiagonalRejected ==
    (Readable(file) /\ HasZeroDiagonal(file)) =>
        \A r \in Ranks :
            /\ pc[r] \notin LoopPcs \cup {"report"}
            /\ pc[r] = "exited" => status[r] # 0

\* ------------------------------------------------------------------------
\* C13 (as stated): for N = 1 and A[0][0] # 0 every rank that leaves the
\* loop has counted exactly one iteration and holds x[0] = b[0] / A[0][0].
\* ------------------------------------------------------------------------
OneByOne == Readable(file) /\ file.N = 1 /\ file.A[0] # Zero

C13_ExactlyOneIteration ==
    \A r \in Ranks : (OneByOne /\ Terminated(r)) =>
        /\ iterations[r] = 1
        /\ x[r][0] = DDiv(file.b[0], file.A[0])

\* ------------------------------------------------------------------------
\* C13 (amended): for N = 1 and A[0][0] # 0 every rank holds
\* x[0] = b[0] / A[0][0] from the broadcast of the first round on; a rank
\* that leaves the loop has counted exactly one iteration if
\* |b[0] / A[0][0]| <= TOLERANCE and exactly two iterations otherwise (the
\* first round's error is |b[0] / A[0][0]|, the second round's error is 0).
\* ------------------------------------------------------------------------
C13_OneOrTwoIterations ==
    \A r \in Ranks : OneByOne =>
        LET q == DDiv(file.b[0], file.A[0])
        IN  /\ (AfterBcast(r) \/ Terminated(r)) => x[r] = [i \in Idx(1) |-> q]
            /\ Terminated(r) =>
                   iterations[r] = IF DLe(DAbs(q), TOLERANCE) THEN 1 ELSE 2
            /\ pc[r] = "check" =>
                   global_error[r] = IF iterations[r] = 0 THEN DAbs(q) ELSE Zero

\* with two ranks, the rank without rows has left the loop after the second
\* round of a system whose solution 1/2 is not within the tolerance of 0
C13_Witness ==
    /\ OneByOne
    /\ size = 2
    /\ file.A[0] = FromInt(2) /\ file.b[0] = FromInt(1)
    /\ Terminated(1)
    /\ iterations[1] = 2
    /\ x[1][0] = <<1, 2>>

\* ------------------------------------------------------------------------
\* C14: when the N read from the file is <= 0, no rank gets past the
\* broadcast of N: none computes a partition, sends or receives a block of
\* the scatter, or runs a round, nothing is printed on stdout, and every
\* rank that has exited has a non-zero status.
\* ------------------------------------------------------------------------
C14_InvalidN ==
    (file.exists /\ file.len >= 1 /\ file.N <= 0) =>
        /\ out = NoOutput
        /\ \A r \in Ranks :
               /\ pc[r] \in {"load", "bcastN", "exited"}
               /\ pc[r] = "exited" => status[r] # 0 /\ status[r] # Running
               /\ ~netA[r].sent /\ ~netB[r].sent
               /\ A_local[r] = <<>> /\ b_local[r] = <<>>
               /\ iterations[r] = 0
               /\ x[r] = <<>> /\ x_local[r] = <<>>
               /\ netX[r].round = 0 /\ netErr[r].round = 0

\* N = 0 has been read and broadcast, and both ranks have returned 1 from
\* main without an abort
C14_Witness ==
    /\ size = 2
    /\ file.N = 0
    /\ netN = [sent |-> TRUE, val |-> 0]
    /\ abort.cause = "none"
    /\ \A r \in Ranks : pc[r] = "exited" /\ status[r] = 1 /\ N[r] = 0

\* ------------------------------------------------------------------------
\* C15: when the file is missing or holds fewer tokens than N, A and b
\* need, no rank gets past the broadcast of N, N is not broadcast and no
\* block of A or b is sent or received; and once any rank has called die
\* (input error or failed allocation) nothing is printed on stdout, no rank
\* reaches the report or returns 0, and every rank that has exited has the
\* status 1.
\* ------------------------------------------------------------------------
InputError == ~file.exists \/ file.len < FullLen(file)

C15_FatalErrors ==
    /\ InputError =>
           /\ ~netN.sent
           /\ A_full = <<>> /\ b_full = <<>>
           /\ \A r \in Ranks :
                  /\ pc[r] \in {"load", "bcastN", "exited"}
                  /\ r # 0 => N[r] = 0
                  /\ ~netA[r].sent /\ ~netB[r].sent
                  /\ A_local[r] = <<>> /\ b_local[r] = <<>>
                  /\ pc[r] = "exited" => abort.cause # "none"
    /\ abort.cause # "none" =>
           /\ out = NoOutput
           /\ \A r \in Ranks :
                  /\ ~Terminated(r)
                  /\ pc[r] = "exited" => status[r] = 1

\* the file ends inside b: rank 0 has called die, the other rank has been
\* ended while it waited for N
C15_Witness ==
    /\ size = 2
    /\ file.exists /\ file.len = FullLen(file) - 1
    /\ abort = [msg |-> "Failed to read b", cause |-> "io"]
    /\ \A r \in Ranks : pc[r] = "exited" /\ status[r] = 1
    /\ N[0] = 2 /\ N[1] = 0

\* ------------------------------------------------------------------------
\* C16: once rank 0 has loaded the file no step changes A_full or b_full;
\* once a rank has returned from the scatter no step changes its A_local
\* or b_local; a step changes x_old of a rank only when the rank zeroes it
\* before the loop or copies the whole x into it at the start of a round;
\* a step changes x of a rank only when the rank zeroes it before the loop,
\* when rank 0 returns from the gather, or when another rank returns from
\* the broadcast with the vector that was broadcast; the local update
\* changes x_local only.
\* ------------------------------------------------------------------------
C16_Step(r) ==
    /\ pc[0] # "load" => A_full' = A_full /\ b_full' = b_full
    /\ pc[r] \notin {"load", "bcastN", "partition", "counts", "scatter"} =>
           A_local'[r] = A_local[r] /\ b_local'[r] = b_local[r]
    /\ x_old'[r] # x_old[r] =>
           \/ pc[r] = "initx"
           \/ pc[r] = "copy" /\ x_old'[r] = x[r] /\ x'[r] = x[r]
    /\ x'[r] # x[r] =>
           \/ pc[r] = "initx"
           \/ r = 0 /\ pc[r] = "gather"
           \/ r # 0 /\ pc[r] = "bcast" /\ x'[r] = netBc.data
    /\ x_local'[r] # x_local[r] => pc[r] = "update"
    /\ pc[r] = "update" =>
           /\ x_old'[r] = x_old[r] /\ x'[r] = x[r]
           /\ A_local'[r] = A_local[r] /\ b_local'[r] = b_local[r]

C16_Frame == [][\A r \in Ranks : C16_Step(r)]_vars

\* in a later round a rank other than rank 0 has updated its rows to values
\* that differ from x_old, and still holds the block it received
C16_Witness ==
    \E r \in Ranks \ {0} :
        /\ pc[r] = "gather"
        /\ iterations[r] >= 1
        /\ local_rows[r] >= 1
        /\ \E li \in Idx(local_rows[r]) : x_local[r][li] # x_old[r][start_row[r] + li]
        /\ x_old[r] # Zeros(N[r])
        /\ A_local[r] = netA[r].data
        /\ b_local[r] = netB[r].data

\* ------------------------------------------------------------------------
\* C17: on a complete file with N > 0 and a non-zero diagonal, with every
\* rank scheduled fairly and no allocation refused for lack of memory,
\* eventually every rank has returned 0 from main, having counted at most
\* MAX_ITER rounds.
\* ------------------------------------------------------------------------
ValidInput == Readable(file) /\ file.N > 0 /\ ~HasZeroDiagonal(file)

AllTerminated ==
    \A r \in Ranks :
        /\ pc[r] = "exited" /\ status[r] = 0
        /\ iterations[r] >= 1 /\ iterations[r] <= MAX_ITER

C17_EventuallyTerminates == (ValidInput /\ heap = "ample") => <>AllTerminated

\* what does hold: when no rank is left without a row (P <= N) every rank
\* eventually returns 0, so the abort of a rank without rows on a malloc(0)
\* that returns NULL is the only way the runs above fail to terminate
TerminatesWhenEveryRankOwnsARow ==
    (ValidInput /\ heap = "ample" /\ size <= file.N) => <>AllTerminated

\* ------------------------------------------------------------------------
\* C18: what a run ends with is a function of the file alone: when rank 0
\* leaves the loop it holds the solution vector, the iteration count and the
\* global error that the rounds of lines 108-159 yield when they are
\* computed one after the other on the whole matrix; every other rank that
\* has left the loop holds the same three values as rank 0, and what rank 0
\* prints is the report of these values; so two runs on the same file with
\* the same number of ranks end with the same values, however their steps
\* interleave.
\* ------------------------------------------------------------------------
\* the rounds are taken in blocks of BlockLen so that the nesting of the
\* definitions stays shallow
BlockLen == 32

\* the new values of rows 0 .. n-1, one after the other
RECURSIVE RowsUpTo(_, _, _)
RowsUpTo(f, xo, n) ==
    IF n = 0 THEN <<>>
    ELSE Append(RowsUpTo(f, xo, n - 1), JacobiRow(f.A, f.b, xo, f.N, 0, n - 1))

RECURSIVE BlockOf(_, _, _)
BlockOf(f, st, k) ==
    IF k = 0 \/ st.done THEN st
    ELSE LET rows == RowsUpTo(f, st.x, f.N)
             xn == [i \in Idx(f.N) |-> rows[i + 1]]
             err == ErrorLoop(xn, st.x, 0, f.N, 0, Zero)
         IN  BlockOf(f, [x |-> xn, iterations |-> st.iterations + 1, error |-> err,
                         done |-> ~Continue(err, st.iterations + 1)], k - 1)

RECURSIVE RoundsFrom(_, _)
RoundsFrom(f, st) ==
    LET next == BlockOf(f, st, BlockLen)
    IN  IF next.done THEN next ELSE RoundsFrom(f, next)

RoundsOf(f) ==
    RoundsFrom(f, [x |-> Zeros(f.N), iterations |-> 0, error |-> Zero, done |-> FALSE])

C18_SameOutput ==
    /\ pc[0] = "report" =>
           LET ref == RoundsOf(file)
           IN  /\ x[0] = ref.x
               /\ iterations[0] = ref.iterations
               /\ global_error[0] = ref.error
    /\ \A r \in Ranks : (Terminated(r) /\ Terminated(0)) =>
           /\ x[r] = x[0]
           /\ iterations[r] = iterations[0]
           /\ global_error[r] = global_error[0]
    /\ out.printed =>
           /\ pc[0] = "exited" /\ status[0] = 0
           /\ out = Report(file.N, size, x[0], iterations[0], global_error[0])
    /\ (pc[0] = "exited" /\ status[0] = 0) => out.printed

\* two ranks have returned 0 after several rounds on a system whose rows
\* depend on each other, and rank 0 has printed the report
C18_Witness ==
    /\ size = 2
    /\ file \in Files2Coupled
    /\ \A r \in Ranks : pc[r] = "exited" /\ status[r] = 0
    /\ out.printed
    /\ out.iterations >= 3 /\ out.iterations < MAX_ITER
    /\ out.x[0].digits # 0

\* ------------------------------------------------------------------------
\* C19: once the generator has closed the file, the file holds 1 + n*n + n
\* tokens, the first is n, the token at position i*n + j after it converts
\* back to the value generated for A[i][j] and the last n tokens to the
\* values generated for b; and each of the four loaders of the repository
\* reads from the file exactly the generated system.
\* ------------------------------------------------------------------------
EntryA(i, j) ==
    gen_A[CHOOSE k \in 1 .. Len(gen_A) : gen_A[k].row = i /\ gen_A[k].col = j].val

EntryB(i) == gen_b[CHOOSE k \in 1 .. Len(gen_b) : gen_b[k].row = i].val

Generated ==
    [N |-> gen_n,
     A |-> [k \in Idx(gen_n * gen_n) |-> EntryA(k \div gen_n, k % gen_n)],
     b |-> [i \in Idx(gen_n) |-> EntryB(i)]]

C19_LoadersRecoverSystem ==
    gen_pc = "closed" =>
        /\ Len(gen_file) = 1 + gen_n * gen_n + gen_n
        /\ ParseD(gen_file[1]) = gen_n
        /\ \A i, j \in Idx(gen_n) : ParseLf(gen_file[2 + i * gen_n + j]) = EntryA(i, j)
        /\ \A i \in Idx(gen_n) :
               ParseLf(gen_file[Len(gen_file) - gen_n + 1 + i]) = EntryB(i)
        /\ LoadMpi(gen_file) = Generated
        /\ LoadOmp(gen_file) = Generated
        /\ LoadOmpOptimized(gen_file) = Generated
        /\ LoadSerialOptimized(gen_file) = Generated

\* what does hold: the format of the file, and the two loaders that read
\* all of A before b
GeneratedFormat ==
    gen_pc = "closed" =>
        /\ Len(gen_file) = 1 + gen_n * gen_n + gen_n
        /\ ParseD(gen_file[1]) = gen_n
        /\ \A i, j \in Idx(gen_n) : ParseLf(gen_file[2 + i * gen_n + j]) = EntryA(i, j)
        /\ \A i \in Idx(gen_n) :
               ParseLf(gen_file[Len(gen_file) - gen_n + 1 + i]) = EntryB(i)
        /\ LoadMpi(gen_file) = Generated
        /\ LoadOmp(gen_file) = Generated
        /\ gen_n = 1 => LoadOmpOptimized(gen_file) = Generated
        /\ gen_n = 1 => LoadSerialOptimized(gen_file) = Generated

\* ------------------------------------------------------------------------
\* C20: in every row that the generator has written completely, the
\* diagonal entry written is greater than the sum of the absolute values of
\* the other entries written in that row.
\* ------------------------------------------------------------------------
RowWritten(i) == gen_i > i \/ gen_pc \in {"b", "closed"}

RECURSIVE OffDiagonalAbsSum(_, _)
OffDiagonalAbsSum(i, j) ==
    IF j = 0 THEN Zero
    ELSE DAdd(OffDiagonalAbsSum(i, j - 1),
              IF j - 1 = i THEN Zero ELSE DAbs(ParseLf(gen_file[2 + i * gen_n + j - 1])))

C20_DiagonallyDominant ==
    \A i \in Idx(gen_n) : RowWritten(i) =>
        DGt(ParseLf(gen_file[2 + i * gen_n + i]), OffDiagonalAbsSum(i, gen_n))

\* ------------------------------------------------------------------------
\* C21: each of the single-process solvers works with the tolerance 1e-5
\* and the cap of 1000 iterations of the MPI solver: the count it stores
\* into *iterations is never larger than 1000, and it starts a further
\* round only if the error of the round before is not <= 1e-5.
\* ------------------------------------------------------------------------
\* the routine is in a round that follows a completed one
InFurtherRound == mpc \in {"copy", "fork", "region"} /\ iter >= 1

CapOf1000Kept == ret.stored => ret.iterations <= MAX_ITER

StopsAtTolerance == InFurtherRound => ~DLe(error, TOLERANCE)

C21_ToleranceAndCap == CapOf1000Kept /\ StopsAtTolerance

\* ------------------------------------------------------------------------
\* C24: in jacobi_optimized and jacobi_serial_optimized x_old and x_new
\* point to two different blocks in every round, the update of a round reads
\* only the block of x_old and writes only the block of x_new, and the
\* vector found in x_out on return is the one the last executed round wrote
\* (the Jacobi update of the vector that round read), whether the number of
\* swaps is odd or even.
\* ------------------------------------------------------------------------
Swapping == prog \in {"jacobi_optimized", "jacobi_serial_optimized"}

\* the blocks the update of the current (or last) round has written and read
WrittenBlocks == {a.buf : a \in {c \in accesses : c.kind = "w"}}

ReadBlocks == {a.buf : a \in {c \in accesses : c.kind = "r"}}

\* sum over all j of A[i][j] * xo[j], as the optimized routines add it up
RECURSIVE DotRow(_, _, _, _)
DotRow(s, xo, i, n) ==
    IF n = 0 THEN Zero
    ELSE DAdd(DotRow(s, xo, i, n - 1), DMul(s.A[i * s.N + n - 1], xo[n - 1]))

\* the value the optimized routines give to entry i from the vector xo
UpdateOf(s, xo, i) ==
    LET d == s.A[i * s.N + i]
    IN  DDiv(DSub(s.b[i], DSub(DotRow(s, xo, i, s.N), DMul(d, xo[i]))), d)

C24_ResultIsLastIterate ==
    Swapping =>
        /\ p_old # p_new
        /\ {p_old, p_new} = {"m0", "m1"}
        /\ mpc = "region" => WrittenBlocks \subseteq {p_new} /\ ReadBlocks \subseteq {p_old}
        /\ mpc = "done" =>
               /\ ret.stored /\ ret.iterations = iter /\ iter >= 1
               /\ \E w \in WrittenBlocks, r \in ReadBlocks :
                      /\ WrittenBlocks = {w} /\ ReadBlocks = {r} /\ w # r
                      /\ mem["x"] = mem[w]
                      /\ \A i \in Idx(sys.N) : mem["x"][i] = UpdateOf(sys, mem[r], i)

\* a routine has returned after an even number of swaps, at least four, and
\* the vector it returns differs from the one of the round before
C24_Witness ==
    /\ Swapping
    /\ mpc = "done"
    /\ iter % 2 = 0 /\ iter >= 4
    /\ sys.N = 2
    /\ mem["x"] # mem[p_new]
    /\ mem["x"] = mem[p_old]

\* the same after an odd number of swaps
OddSwaps ==
    /\ Swapping
    /\ mpc = "done"
    /\ iter % 2 = 1 /\ iter >= 3
    /\ mem["x"] # mem[p_new]

\* ------------------------------------------------------------------------
\* C25: in the parallel update loop of jacobi and of jacobi_optimized, for
\* every number of threads, every distribution of the iterations and every
\* interleaving: an entry of the output vector is written at most once and
\* only by the thread that owns its iteration, no entry that is read is an
\* entry that is written, and when all threads have finished every entry has
\* been written exactly once and holds the Jacobi update of the vector the
\* round started from, so the result does not depend on the schedule.
\* ------------------------------------------------------------------------
Parallel == prog \in {"jacobi", "jacobi_optimized"}

Writes == {a \in accesses : a.kind = "w"}

Reads == {a \in accesses : a.kind = "r"}

\* jacobi, lines 189-194: the sum over j < n, j # i, of A[i][j] * xo[j]
RECURSIVE SkipSum(_, _, _, _)
SkipSum(s, xo, i, n) ==
    IF n = 0 THEN Zero
    ELSE IF n - 1 = i THEN SkipSum(s, xo, i, n - 1)
    ELSE DAdd(SkipSum(s, xo, i, n - 1), DMul(s.A[i * s.N + n - 1], xo[n - 1]))

\* the value jacobi gives to entry i from the vector xo (lines 189-195)
UpdateSkip(s, xo, i) ==
    DDiv(DSub(s.b[i], SkipSum(s, xo, i, s.N)), s.A[i * s.N + i])

C25_UpdateLoopsRaceFree ==
    (Parallel /\ mpc = "region") =>
        /\ \A a \in Writes : a.nth = 0 /\ a.t = owner[a.idx] /\ a.buf = p_new
        /\ \A a, c \in Writes : (a.buf = c.buf /\ a.idx = c.idx) => a.t = c.t
        /\ \A a \in Writes, c \in Reads : ~(a.buf = c.buf /\ a.idx = c.idx)
        /\ Joined =>
               \A i \in Idx(sys.N) :
                   /\ Cardinality({a \in Writes : a.idx = i}) = 1
                   /\ mem[p_new][i] = IF prog = "jacobi"
                                      THEN UpdateSkip(sys, mem[p_old], i)
                                      ELSE UpdateOf(sys, mem[p_old], i)

\* two threads have finished a round after the first one on a 3x3 system,
\* thread 1 ran iteration 1 between the two iterations of thread 0, and the
\* round has changed the vector
C25_Witness ==
    /\ prog = "jacobi"
    /\ Joined
    /\ threads = 2
    /\ sys.N = 3
    /\ owner[0] = 0 /\ owner[1] = 1 /\ owner[2] = 0
    /\ iter >= 1
    /\ mem[p_new] # mem[p_old]

\* the same in jacobi_optimized, with the chunks of schedule(static)
StaticChunksRun ==
    /\ prog = "jacobi_optimized"
    /\ Joined
    /\ threads = 2
    /\ sys.N = 3
    /\ owner[0] = 0 /\ owner[2] = 1
    /\ iter >= 1
    /\ mem[p_new] # mem[p_old]

\* ------------------------------------------------------------------------
\* C23: for every number of ranks the MPI solver computes what the routine
\* jacobi of OpenMP.c computes on the system of the file. Both start from
\* the zero vector; the vector a rank holds after the broadcast of a round
\* is the vector one round of jacobi makes of the rank's x_old; the global
\* error of the round is the error jacobi computes from these two vectors;
\* a rank goes on, or leaves the loop, when the loop condition of jacobi
\* says so; and when rank 0 has left the loop its vector, its error and its
\* iteration count are those with which jacobi returns.
\* ------------------------------------------------------------------------
\* jacobi, lines 187-196: the vector one round makes of xo
RECURSIVE SerialRows(_, _, _)
SerialRows(s, xo, n) ==
    IF n = 0 THEN <<>>
    ELSE Append(SerialRows(s, xo, n - 1), UpdateSkip(s, xo, n - 1))

SerialRound(s, xo) ==
    LET rows == SerialRows(s, xo, s.N)
    IN  [i \in Idx(s.N) |-> rows[i + 1]]

\* jacobi, lines 180-206: at most k further rounds
RECURSIVE SerialBlock(_, _, _)
SerialBlock(s, st, k) ==
    IF k = 0 \/ st.done THEN st
    ELSE LET xn == SerialRound(s, st.x)
             err == ErrorL1(xn, st.x, s.N)
         IN  SerialBlock(s, [x |-> xn, iter |-> st.iter + 1, error |-> err,
                             done |-> ~ContinueOf("jacobi", err, st.iter + 1)], k - 1)

RECURSIVE SerialFrom(_, _)
SerialFrom(s, st) ==
    LET next == SerialBlock(s, st, BlockLen)
    IN  IF next.done THEN next ELSE SerialFrom(s, next)

\* jacobi, lines 170-210: x, error and iter on return
JacobiSerial(s) ==
    SerialFrom(s, [x |-> Fill(s.N, Zero), iter |-> 0, error |-> Zero, done |-> FALSE])

C23_EquivalentToSerial ==
    /\ \A r \in Ranks :
           /\ (pc[r] = "copy" /\ iterations[r] = 0) => x[r] = Fill(file.N, Zero)
           /\ AfterBcast(r) => x[r] = SerialRound(SysOf(file), x_old[r])
           /\ pc[r] = "check" =>
                  global_error[r] = ErrorL1(x[r], x_old[r], file.N)
           /\ (pc[r] \in (LoopPcs \ {"check"}) /\ iterations[r] >= 1) =>
                  ContinueOf("jacobi", global_error[r], iterations[r])
           /\ Terminated(r) =>
                  ~ContinueOf("jacobi", global_error[r], iterations[r])
    /\ pc[0] = "report" =>
           LET ref == JacobiSerial(SysOf(file))
           IN  /\ x[0] = ref.x
               /\ global_error[0] = ref.error
               /\ iterations[0] = ref.iter

\* with two ranks, rank 0 has left the loop after several rounds on a system
\* whose rows depend on each other while rank 1 is still in the last round
C23_Witness ==
    /\ size = 2
    /\ file \in Files2Coupled
    /\ pc[0] = "report"
    /\ pc[1] = "check"
    /\ iterations[0] >= 3 /\ iterations[0] < MAX_ITER
    /\ iterations[1] = iterations[0] - 1
    /\ x[0][0] # x[0][1]
    /\ ~DLe(global_error[0], Zero)

\* ------------------------------------------------------------------------
\* C22: convergence on strictly diagonally dominant systems
\* ------------------------------------------------------------------------
AbsSum(s, i, n) == LET f[k \in 0 .. n] == IF k = 0 THEN 0
                                          ELSE f[k - 1] + (IF k - 1 = i THEN 0 ELSE AbsInt(s.A[i * s.N + k - 1]))
                   IN  f[n]

\* |A[i][i]| > sum over j # i of |A[i][j]| in every row
RowDominant(s) == \A i \in Idx(s.N) : AbsInt(s.A[i * s.N + i]) > AbsSum(s, i, s.N)

\* sum over i # j of |A[i][j]| / |A[i][i]| <= 1 in every column j, written
\* over the common denominator Scale(s)
ColumnWeight(s, j) ==
    LET f[k \in 0 .. s.N] ==
            IF k = 0 THEN 0
            ELSE f[k - 1] + (IF k - 1 = j THEN 0
                             ELSE AbsInt(s.A[(k - 1) * s.N + j]) * (Scale(s) \div AbsInt(s.A[(k - 1) * s.N + k - 1])))
    IN  f[s.N]

ColumnContracting(s) == \A j \in Idx(s.N) : ColumnWeight(s, j) <= Scale(s)

\* the step ends a round after the first, and the round's summed error is
\* not above the summed error of the round before it
RoundEnds == ex_iterations' = ex_iterations + 1 /\ ex_iterations >= 1

ErrorNotIncreased == BLe(ex_global_error'.num, BMul(ex_global_error.num, Scale(ex_sys)))

\* the solution of Example: (1/2, 1, 1/2), numerators over the denominator 2
ExampleSolution == [den |-> 2, num |-> [i \in Idx(3) |-> IF i = 1 THEN 2 ELSE 1]]

Solves(s, sol) ==
    \A i \in Idx(s.N) :
        LET f[k \in 0 .. s.N] == IF k = 0 THEN 0 ELSE f[k - 1] + s.A[i * s.N + k - 1] * sol.num[k - 1]
        IN  f[s.N] = s.b[i] * sol.den

\* the numerator of the sum of |x[i] - sol[i]| over the denominator of x
\* times the denominator of sol
RECURSIVE Distance(_, _, _)
Distance(xn, sol, n) ==
    IF n = 0 THEN Big(0)
    ELSE BAdd(Distance(xn, sol, n - 1),
              BAbs(BSub(BMul(xn.num[n - 1], sol.den), BMul(xn.den, sol.num[n - 1]))))

ExampleConverged ==
    (ex_sys = Example /\ AllAt("report")) =>
        /\ Solves(Example, ExampleSolution)
        /\ ex_iterations < MAX_ITER
        /\ ~AboveTolerance(ex_global_error)
        /\ BLe(BMul(Distance(ex_x, ExampleSolution, 3), TolDen), BMul(ex_x.den, ExampleSolution.den))

\* C22 as stated: on a system that is strictly diagonally dominant by rows
\* the summed error of a round is never above that of the round before, and
\* the run on the example ends below the tolerance before the cap of 1000
\* rounds, at the solution.
C22_ErrorsNeverIncrease ==
    /\ [][(RoundEnds /\ RowDominant(ex_sys)) => ErrorNotIncreased]_vars
    /\ []ExampleConverged

\* C22 amended: the summed error of a round is never above that of the
\* round before on a system that is strictly diagonally dominant by rows and
\* whose off-diagonal entries, each divided by the diagonal entry of its
\* row, sum to at most 1 in every column; the run on the example ends below
\* the tolerance before the cap of 1000 rounds, within the tolerance of the
\* solution (1/2, 1, 1/2).
C22_ErrorsNeverIncreaseColumns ==
    /\ [][(RoundEnds /\ RowDominant(ex_sys) /\ ColumnContracting(ex_sys)) => ErrorNotIncreased]_vars
    /\ []ExampleConverged

\* the example has ended after 43 rounds on two ranks, its error having gone
\* down over the rounds
C22_Witness ==
    /\ ex_sys = Example
    /\ RowDominant(ex_sys) /\ ColumnContracting(ex_sys)
    /\ ex_size = 2
    /\ AllAt("report")
    /\ ex_iterations = 43
    /\ ~AboveTolerance(ex_global_error)

\* a system that is dominant by rows and whose columns sum to more than 1
\* has run a second round
SkewRan ==
    /\ RowDominant(ex_sys) /\ ~ColumnContracting(ex_sys)
    /\ ex_iterations >= 2

==========================================================================
